---- MODULE Spec2Model ----
(***************************************************************************)
(* Audio core of br1dge-website: the orchestrator (ToneAudioSystem), the   *)
(* shared mix bus (EffectChain), the synthesized continuous layer          *)
(* (AmbientSoundscape) and the one-shot layer (SFXEngine).                 *)
(*                                                                         *)
(* Every handler is an operator from a "world" record (the fields of the   *)
(* singletons, the pending host timers and the commands issued so far) to  *)
(* the world after the handler has returned.  An action of the model is    *)
(* one macrotask of the JavaScript event loop: a public call, a host timer *)
(* firing, or a platform promise settling together with the continuations  *)
(* that run in its microtasks.                                             *)
(*                                                                         *)
(* Units: gains in 1e-6, intensity in 1e-3, filter frequencies in 0.1 Hz.  *)
(***************************************************************************)
EXTENDS Integers, Sequences, FiniteSets, Bags, TLC

VARIABLES
  tas,        \* ToneAudioSystemClass fields
  ec,         \* EffectChainClass fields
  amb,        \* AmbientSoundscapeClass fields and the state of its nodes
  sfx,        \* SFXEngineClass fields and the state of its texture voices
  mls,        \* MusicLoopSystemClass fields and the state of its tracks
  sfxL,       \* SFXEngineClass fields, the variant wired to MusicLoopSystem
  clock,      \* Date.now(), in ms
  timers,     \* bag of pending host timers (setTimeout callbacks)
  transport,  \* Tone.Transport
  calls,      \* asynchronous init()/resume() invocations in flight
  ctx,        \* Tone.context.state
  log,        \* commands issued by the last macrotask, in program order
  op,         \* the last macrotask: its name and return value
  nOps,       \* public calls and chord advances so far
  hist        \* history: the intensity a caller of the soundscape set last

vars == <<tas, ec, amb, sfx, mls, sfxL, clock, timers, transport, calls, ctx, log, op, nOps, hist>>

----------------------------------------------------------------------------
(* Bounds *)

MaxOps == 4       \* public calls and chord advances per behaviour

\* init()/resume() invocations per behaviour: at most half of its public calls
MaxCalls == MaxOps \div 2

\* calls of playCollect() in a row: one more than it takes to reach the cap
MaxCollects == 12

\* event-method calls per behaviour of SpecTrig
MaxTriggers == 2

Calls == 1..MaxCalls

\* inputs of setIntensity (1e-3) and setGameLevel / playLevelUp
IntensityInputs == {50}
LevelInputs == {10}

----------------------------------------------------------------------------
(* Helpers *)

Min(a, b) == IF a < b THEN a ELSE b
Max(a, b) == IF a > b THEN a ELSE b

Timer(k, a) == [k |-> k, a |-> a]

Emit(w, e) == [w EXCEPT !.log = Append(@, e)]

\* window.setTimeout(callback, ms)
SetTimeout(w, k, a) ==
  [w EXCEPT !.timers = @ (+) SetToBag({Timer(k, a)}),
            !.log = Append(@, "setTimeout")]

Pending(k, a) == BagIn(Timer(k, a), timers)

Has(l, e) == \E i \in 1..Len(l) : l[i] = e

Before(l, es, e) ==
  \A k \in 1..Len(l) : l[k] = e => \E j \in 1..(k - 1) : l[j] \in es

----------------------------------------------------------------------------
(* EffectChain *)

\* EffectChain.init(), up to `await this.reverb.generate()`
ECInitBegin(w) ==
  [w EXCEPT !.ec.masterChannel = TRUE,
            !.ec.masterMute = FALSE,
            !.ec.masterVolume = -6000,
            !.ec.created.masterChannel = @ + 1,
            !.log = @ \o <<"new:masterChannel", "new:reverb">>]

\* EffectChain.init(), after reverb.generate() has resolved
ECInitEnd(w) ==
  [w EXCEPT !.ec.reverbSend = TRUE,
            !.ec.delaySend = TRUE,
            !.ec.warmFilter = TRUE,
            !.ec.filterTarget = 25000,
            !.ec.reverbVolume = -6000,
            !.ec.delayVolume = -9000,
            !.ec.created.reverbSend = @ + 1,
            !.ec.created.delaySend = @ + 1,
            !.ec.created.warmFilter = @ + 1,
            !.ec.initialized = TRUE,
            !.log = @ \o <<"new:reverbSend", "new:delaySend", "new:warmFilter">>]

\* the getters: TRUE for a node handle, FALSE for null
ECGetMainInput(w) == w.ec.warmFilter

ECGetReverbSend(w) == w.ec.reverbSend

ECGetDelaySend(w) == w.ec.delaySend

ECGetMasterChannel(w) == w.ec.masterChannel

\* volumes are in 1e-3 dB, mix amounts in 1e-3, frequencies in 0.1 Hz
ECSetMasterVolume(w, db) ==
  IF w.ec.masterChannel
  THEN [w EXCEPT !.ec.masterVolume = db,
                 !.log = Append(@, "rampTo:masterChannel.volume")]
  ELSE w

ECSetReverbMix(w, amount) ==
  IF w.ec.reverbSend
  THEN [w EXCEPT !.ec.reverbVolume =
                   IF amount <= 10 THEN -60000 ELSE -6000 + (amount - 1000) * 12,
                 !.log = Append(@, "rampTo:reverbSend.volume")]
  ELSE w

ECSetDelayMix(w, amount) ==
  IF w.ec.delaySend
  THEN [w EXCEPT !.ec.delayVolume =
                   IF amount <= 10 THEN -60000 ELSE -9000 + (amount - 1000) * 12,
                 !.log = Append(@, "rampTo:delaySend.volume")]
  ELSE w

ECSetFilterFrequency(w, freq) ==
  IF w.ec.warmFilter
  THEN [w EXCEPT !.ec.filterTarget = Max(200, Min(200000, freq)),
                 !.log = Append(@, "rampTo:warmFilter.frequency")]
  ELSE w

\* how long, in milliseconds, each command of the controls takes to bring its
\* parameter to the new value: the second argument of rampTo and
\* linearRampTo, and 0 for the assignment to masterChannel.mute
ECRamp ==
  [c \in {"rampTo:masterChannel.volume", "masterChannel.mute",
          "rampTo:reverbSend.volume", "rampTo:delaySend.volume",
          "rampTo:warmFilter.frequency", "rampFilter:warmFilter"} |->
     CASE c = "rampTo:masterChannel.volume" -> 500
       [] c = "masterChannel.mute" -> 0
       [] c = "rampTo:reverbSend.volume" -> 1000
       [] c = "rampTo:delaySend.volume" -> 1000
       [] c = "rampTo:warmFilter.frequency" -> 500
       [] c = "rampFilter:warmFilter" -> 800]

ECSetMuted(w, m) ==
  IF w.ec.masterChannel
  THEN [w EXCEPT !.ec.masterMute = m, !.log = Append(@, "masterChannel.mute")]
  ELSE w

ECSetUnderwaterMode(w, a) ==
  IF w.ec.warmFilter
  THEN [w EXCEPT !.ec.filterTarget = IF a THEN 3000 ELSE 25000,
                 !.log = Append(@, "rampFilter:warmFilter")]
  ELSE w

ECDispose(w) ==
  [w EXCEPT !.ec.initialized = FALSE,
            !.ec.created = [masterChannel |-> 0, reverbSend |-> 0,
                            delaySend |-> 0, warmFilter |-> 0],
            !.log = Append(@, "dispose:EffectChain")]

----------------------------------------------------------------------------
(* AmbientSoundscape *)

NoDrones == <<>>

\* gain.linearRampTo(target, t) on one of the scalar gains
RampGain(w, g, target) ==
  [w EXCEPT !.amb[g] = target, !.log = Append(@, "rampGain")]

\* droneGains[i]?.gain.linearRampTo(target, t)
RampDrone(w, i, target) ==
  IF i < Len(w.amb.droneGains)
  THEN [w EXCEPT !.amb.droneGains[i + 1] = target, !.log = Append(@, "rampGain")]
  ELSE w

\* droneGains.forEach(g => g?.gain.linearRampTo(target, t))
RampAllDrones(w, target) ==
  IF Len(w.amb.droneGains) > 0
  THEN [w EXCEPT !.amb.droneGains = [i \in 1..Len(@) |-> target],
                 !.log = Append(@, "rampGain")]
  ELSE w

RampDroneFilter(w, f) ==
  [w EXCEPT !.amb.droneFilter = f, !.log = Append(@, "rampFilter")]

ASInit(w) ==
  IF w.amb.initialized THEN w
  ELSE IF ~(w.ec.warmFilter /\ w.ec.reverbSend /\ w.ec.delaySend)
  THEN Emit(w, "warn:EffectChain not initialized")
  ELSE [w EXCEPT !.amb.subOsc = FALSE,
                 !.amb.subGain = 0,
                 !.amb.droneFilter = 6000,
                 !.amb.droneSynths = @ \o <<FALSE, FALSE, FALSE>>,
                 !.amb.droneGains = @ \o <<0, 0, 0>>,
                 !.amb.stringSynth = FALSE,
                 !.amb.stringGain = 0,
                 !.amb.brassSynth = FALSE,
                 !.amb.brassGain = 0,
                 !.amb.shimmerGain = 0,
                 !.amb.pulseGain = 0,
                 !.amb.pulseLoop = FALSE,
                 !.amb.initialized = TRUE,
                 !.log = Append(@, "new:soundscape")]

ASPlayChord(w, index) ==
  IF ~w.amb.active THEN w
  ELSE
    LET prevDroneIndex == w.amb.currentDroneIndex
        newDroneIndex == (prevDroneIndex + 1) % Len(w.amb.droneSynths)
        w1 == [w EXCEPT !.amb.bassChord = index,
                        !.amb.currentDroneIndex = newDroneIndex,
                        !.log = Append(@, "rampFreq:subOsc")]
        w2 == SetTimeout(RampDrone(w1, prevDroneIndex, 100), "droneRel", prevDroneIndex)
        w3 == RampDrone([w2 EXCEPT !.amb.droneSynths[newDroneIndex + 1] = TRUE,
                                   !.log = Append(@, "attack:drone")],
                        newDroneIndex, 60000)
        w4 == [w3 EXCEPT !.amb.stringSynth = TRUE,
                         !.log = @ \o <<"release:string", "attack:string">>]
        w5 == IF w4.amb.intensity > 400
              THEN [w4 EXCEPT !.amb.brassSynth = TRUE,
                              !.log = @ \o <<"release:brass", "attack:brass">>]
              ELSE w4
    IN SetTimeout(w5, "shimmer", 0)

\* this.chordLoop = window.setTimeout(advanceChord, ms): the handle now names
\* the new timer (a = 1); a timer the old handle named stays pending (a = 0)
SetChordLoop(w) ==
  LET old == Timer("chord", 1)
      n == CopiesIn(old, w.timers)
      orphaned == IF n > 0
                  THEN (w.timers (-) [e \in {old} |-> n]) (+) [e \in {Timer("chord", 0)} |-> n]
                  ELSE w.timers
  IN [w EXCEPT !.timers = orphaned (+) SetToBag({old}),
               !.amb.chordLoop = TRUE,
               !.log = Append(@, "setTimeout")]

ASStartChordProgression(w) == SetChordLoop(w)

\* a clearTimeout that cancels nothing
ClearChordLoop_Noop(w) == Emit(w, "clearTimeout")

\* clearTimeout(this.chordLoop)
ClearChordLoop(w) ==
  LET h == Timer("chord", 1)
  IN IF BagIn(h, w.timers)
     THEN [w EXCEPT !.timers = @ (-) SetToBag({h}), !.log = Append(@, "clearTimeout")]
     ELSE Emit(w, "clearTimeout")

\* start() without the `this._active` half of its guard
ASStart_NoActiveCheck(w) ==
  IF ~w.amb.initialized THEN w
  ELSE
    LET w1 == [w EXCEPT !.amb.active = TRUE,
                        !.amb.subOsc = TRUE,
                        !.log = Append(@, "start:subOsc")]
        w2 == RampGain(w1, "subGain", 120000)
        w3 == RampDrone([w2 EXCEPT !.amb.currentDroneIndex = 0], 0, 60000)
        w4 == RampGain(RampGain(RampGain(w3, "stringGain", 50000),
                                "brassGain", 20000), "shimmerGain", 40000)
        w5 == ASStartChordProgression(ASPlayChord(w4, 0))
    IN IF ~w5.transport.started
       THEN [w5 EXCEPT !.transport = [started |-> TRUE, bpm |-> 60],
                       !.log = Append(@, "start:Transport")]
       ELSE w5


ASStart(w) ==
  IF ~w.amb.initialized \/ w.amb.active THEN w
  ELSE
    LET w1 == [w EXCEPT !.amb.active = TRUE,
                        !.amb.subOsc = TRUE,
                        !.log = Append(@, "start:subOsc")]
        w2 == RampGain(w1, "subGain", 120000)
        w3 == RampDrone([w2 EXCEPT !.amb.currentDroneIndex = 0], 0, 60000)
        w4 == RampGain(RampGain(RampGain(w3, "stringGain", 50000),
                                "brassGain", 20000), "shimmerGain", 40000)
        w5 == ASStartChordProgression(ASPlayChord(w4, 0))
    IN IF ~w5.transport.started
       THEN [w5 EXCEPT !.transport = [started |-> TRUE, bpm |-> 60],
                       !.log = Append(@, "start:Transport")]
       ELSE w5

\* stop() that leaves invertedMode as it is
ASStop_KeepsInverted(w) ==
  IF ~w.amb.initialized \/ ~w.amb.active THEN w
  ELSE
    LET w1 == [w EXCEPT !.amb.active = FALSE]
        w2 == IF w1.amb.chordLoop
              THEN [ClearChordLoop(w1) EXCEPT !.amb.chordLoop = FALSE]
              ELSE w1
        w3 == RampGain([w2 EXCEPT !.amb.pulseLoop = FALSE,
                                  !.log = Append(@, "stop:pulseLoop")],
                       "pulseGain", 100)
        w5 == RampAllDrones(RampGain(w3, "subGain", 100), 100)
        w6 == RampGain(RampGain(RampGain(w5, "stringGain", 100),
                                "brassGain", 100), "shimmerGain", 100)
    IN SetTimeout(w6, "release", 0)

\* stop() that silences the voices at once instead of after the fade
ASStop_ImmediateRelease(w) ==
  IF ~w.amb.initialized \/ ~w.amb.active THEN w
  ELSE
    LET w1 == [w EXCEPT !.amb.active = FALSE]
        w2 == IF w1.amb.chordLoop
              THEN [ClearChordLoop(w1) EXCEPT !.amb.chordLoop = FALSE]
              ELSE w1
        w3 == RampGain([w2 EXCEPT !.amb.pulseLoop = FALSE,
                                  !.log = Append(@, "stop:pulseLoop")],
                       "pulseGain", 100)
        w4 == [w3 EXCEPT !.amb.invertedMode = FALSE]
        w5 == RampAllDrones(RampGain(w4, "subGain", 100), 100)
        w6 == RampGain(RampGain(RampGain(w5, "stringGain", 100),
                                "brassGain", 100), "shimmerGain", 100)
    IN [w6 EXCEPT !.amb.subOsc = FALSE,
                  !.amb.droneSynths = [i \in 1..Len(@) |-> FALSE],
                  !.amb.stringSynth = FALSE,
                  !.amb.brassSynth = FALSE,
                  !.log = @ \o <<"stop:subOsc", "release:all">>]

ASStop(w) ==
  IF ~w.amb.initialized \/ ~w.amb.active THEN w
  ELSE
    LET w1 == [w EXCEPT !.amb.active = FALSE]
        w2 == IF w1.amb.chordLoop
              THEN [ClearChordLoop(w1) EXCEPT !.amb.chordLoop = FALSE]
              ELSE w1
        w3 == RampGain([w2 EXCEPT !.amb.pulseLoop = FALSE,
                                  !.log = Append(@, "stop:pulseLoop")],
                       "pulseGain", 100)
        w4 == [w3 EXCEPT !.amb.invertedMode = FALSE]
        w5 == RampAllDrones(RampGain(w4, "subGain", 100), 100)
        w6 == RampGain(RampGain(RampGain(w5, "stringGain", 100),
                                "brassGain", 100), "shimmerGain", 100)
    IN SetTimeout(w6, "release", 0)

ASSetIntensity(w, value) ==
  LET i == Max(100, Min(1000, value))
      w1 == [w EXCEPT !.amb.intensity = i]
  IN IF ~w.amb.initialized \/ ~w.amb.active THEN w1
     ELSE
       LET subLevel == 80000 + i * 100
           organLevel == 40000 + i * 60
           stringLevel == 30000 + i * 60
           brassLevel == IF i > 500 THEN 10000 + (i - 500) * 60 ELSE 1000
           shimmerLevel == 20000 + i * 50
           w2 == RampGain(w1, "subGain", subLevel)
           w3 == RampDrone(w2, w2.amb.currentDroneIndex, organLevel)
           w4 == RampGain(RampGain(RampGain(w3, "stringGain", stringLevel),
                                   "brassGain", brassLevel), "shimmerGain", shimmerLevel)
       IN RampDroneFilter(w4, 4000 + i * 8)

ASSetGameLevel(w, level) ==
  LET l == Max(1, Min(10, level))
  IN ASSetIntensity([w EXCEPT !.amb.gameLevel = l], 300 + l * 60)

ASSetInvertedMode(w, active) ==
  IF ~w.amb.initialized \/ ~w.amb.active THEN w
  ELSE
    LET w1 == [w EXCEPT !.amb.invertedMode = active]
    IN IF active
       THEN
         LET w2 == [RampGain(w1, "pulseGain", 550000)
                      EXCEPT !.amb.pulseLoop = TRUE,
                             !.log = Append(@, "start:pulseLoop")]
             w3 == RampGain(RampAllDrones(w2, 20000), "stringGain", 15000)
             w4 == RampGain(RampGain(w3, "brassGain", 100), "shimmerGain", 100)
         IN RampGain(w4, "subGain", 500000)
       ELSE
         LET w2 == SetTimeout(RampGain(w1, "pulseGain", 100), "pulseStop", 0)
         IN ASSetIntensity(w2, w2.amb.intensity)

ASSwell(w) ==
  IF ~w.amb.initialized \/ ~w.amb.active THEN w
  ELSE IF w.amb.invertedMode THEN w
  ELSE
    LET originalIntensity == w.amb.intensity
        w1 == ASSetIntensity(w, Min(1000, w.amb.intensity + 400))
        w2 == [RampGain(w1, "brassGain", 150000)
                 EXCEPT !.amb.brassSynth = TRUE,
                        !.log = Append(@, "attack:brass")]
        w3 == RampDroneFilter(w2, 30000)
    IN SetTimeout(w3, "swell", originalIntensity)

ASDispose(w) ==
  LET w1 == ASStop(w)
      w2 == IF w1.amb.chordLoop THEN ClearChordLoop(w1) ELSE w1
  IN [w2 EXCEPT !.amb.initialized = FALSE,
                !.amb.active = FALSE,
                !.log = Append(@, "dispose:AmbientSoundscape")]

(* host timer callbacks of the soundscape *)

\* advanceChord, scheduled by startChordProgression and by itself
AdvanceChord(w) ==
  IF ~w.amb.active THEN w
  ELSE
    LET next == (w.amb.currentChordIndex + 1) % 4
    IN SetChordLoop(ASPlayChord([w EXCEPT !.amb.currentChordIndex = next], next))

\* setTimeout(() => prevDrone?.releaseAll(), 5000) in playChord
DroneRelease(w, d) ==
  [w EXCEPT !.amb.droneSynths[d + 1] = FALSE, !.log = Append(@, "release:drone")]

\* the shimmer callback of playChord
Shimmer(w) ==
  IF w.amb.active THEN Emit(w, "attackRelease:shimmer") ELSE w

\* the deferred release of stop()
StopRelease(w) ==
  [w EXCEPT !.amb.subOsc = FALSE,
            !.amb.droneSynths = [i \in 1..Len(@) |-> FALSE],
            !.amb.stringSynth = FALSE,
            !.amb.brassSynth = FALSE,
            !.log = @ \o <<"stop:subOsc", "release:all">>]

\* setTimeout(() => this.pulseLoop?.stop(), 1500) in setInvertedMode(false)
PulseStop(w) ==
  [w EXCEPT !.amb.pulseLoop = FALSE, !.log = Append(@, "stop:pulseLoop")]

\* the return callback of swell()
SwellReturn(w, originalIntensity) ==
  RampDroneFilter(ASSetIntensity(w, originalIntensity), 5000 + originalIntensity * 20)

----------------------------------------------------------------------------
(* SFXEngine (the variant wired to AmbientSoundscape) *)

\* init() creates every node afresh; the combo fields and the textures' flags
\* are not touched
SFXInit(w) ==
  IF w.sfx.initialized THEN w
  ELSE IF ~(w.ec.warmFilter /\ w.ec.reverbSend /\ w.ec.delaySend)
  THEN Emit(w, "warn:EffectChain not initialized")
  ELSE [w EXCEPT !.sfx.initialized = TRUE,
                 !.sfx.crackleNoise = FALSE, !.sfx.crackleLFO = FALSE,
                 !.sfx.crackleGain = 0,
                 !.sfx.attractSynth = FALSE, !.sfx.attractGain = 0,
                 !.log = Append(@, "new:sfx")]

\* params.velocity left out by the caller
Undefined == 0 - 1

\* playCollect(params) whose combo never falls back to 0
SFXPlayCollect_NoReset(w, velocityParam) ==
  IF ~w.sfx.initialized THEN w
  ELSE
    LET currentTime == w.clock
        collectCombo == Min(10, w.sfx.collectCombo + 1)
        baseVelocity == IF velocityParam = Undefined THEN 2500 ELSE velocityParam
        velocity == Min(5000, (baseVelocity * (100 + collectCombo * 5)) \div 100)
        w1 == [w EXCEPT !.sfx.collectCombo = collectCombo,
                        !.sfx.lastCollectTime = currentTime,
                        !.sfx.baseVelocity = baseVelocity,
                        !.sfx.velocity = velocity,
                        !.log = Append(@, "attackRelease:melodic")]
        w2 == IF collectCombo >= 5 THEN Emit(w1, "attackRelease:sub") ELSE w1
    IN IF collectCombo >= 6 THEN Emit(w2, "attackRelease:harmonic") ELSE w2

\* playCollect(params) at Date.now() = w.clock; velocities in 1e-4
SFXPlayCollect(w, velocityParam) ==
  IF ~w.sfx.initialized THEN w
  ELSE
    LET currentTime == w.clock
        collectCombo == IF currentTime - w.sfx.lastCollectTime < 300
                        THEN Min(10, w.sfx.collectCombo + 1)
                        ELSE 0
        baseVelocity == IF velocityParam = Undefined THEN 2500 ELSE velocityParam
        velocity == Min(5000, (baseVelocity * (100 + collectCombo * 5)) \div 100)
        w1 == [w EXCEPT !.sfx.collectCombo = collectCombo,
                        !.sfx.lastCollectTime = currentTime,
                        !.sfx.baseVelocity = baseVelocity,
                        !.sfx.velocity = velocity,
                        !.log = Append(@, "attackRelease:melodic")]
        w2 == IF collectCombo >= 5 THEN Emit(w1, "attackRelease:sub") ELSE w1
    IN IF collectCombo >= 6 THEN Emit(w2, "attackRelease:harmonic") ELSE w2

\* gain.linearRampTo(target, t) on crackleGain or attractGain
RampSfxGain(w, g, target) ==
  [w EXCEPT !.sfx[g] = target, !.log = Append(@, "rampGain")]

\* setSpiralSuction(intensity), intensity in 1e-3; it borrows the crackle voice
SFXSetSpiralSuction(w, intensity) ==
  IF ~w.sfx.initialized THEN w
  ELSE IF intensity <= 0
  THEN IF w.sfx.spiralSuctionActive
       THEN [RampSfxGain(w, "crackleGain", 100) EXCEPT !.sfx.spiralSuctionActive = FALSE]
       ELSE w
  ELSE
    LET volume == 20000 + intensity * 40
        w1 == IF ~w.sfx.spiralSuctionActive /\ ~w.sfx.crackleActive
              THEN [w EXCEPT !.sfx.spiralSuctionActive = TRUE,
                             !.sfx.crackleLFO = TRUE,
                             !.sfx.crackleNoise = TRUE,
                             !.log = @ \o <<"set:crackleLFO.frequency", "start:crackleLFO",
                                            "attack:crackleNoise">>]
              ELSE w
    IN IF w1.sfx.spiralSuctionActive
       THEN Emit(RampSfxGain(w1, "crackleGain", volume), "rampParam")
       ELSE w1

\* setChamberCrackling(count) that starts the voice whatever crackleActive is
SFXSetChamberCrackling_AlwaysAttack(w, count) ==
  IF ~w.sfx.initialized THEN w
  ELSE IF count <= 0
  THEN IF w.sfx.crackleActive
       THEN SetTimeout(RampSfxGain(w, "crackleGain", 100), "crackleOff", 0)
       ELSE w
  ELSE
    LET intensity == Min(1000, count * 200)
        volume == 30000 + intensity * 60
        w1 == [w EXCEPT !.sfx.crackleActive = TRUE,
                        !.sfx.crackleLFO = TRUE,
                        !.sfx.crackleNoise = TRUE,
                        !.log = @ \o <<"start:crackleLFO", "attack:crackleNoise">>]
    IN Emit(Emit(RampSfxGain(w1, "crackleGain", volume), "rampParam"), "rampParam")

\* setChamberCrackling(count)
SFXSetChamberCrackling(w, count) ==
  IF ~w.sfx.initialized THEN w
  ELSE IF count <= 0
  THEN IF w.sfx.crackleActive
       THEN SetTimeout(RampSfxGain(w, "crackleGain", 100), "crackleOff", 0)
       ELSE w
  ELSE
    LET intensity == Min(1000, count * 200)
        volume == 30000 + intensity * 60
        w1 == IF ~w.sfx.crackleActive
              THEN [w EXCEPT !.sfx.crackleActive = TRUE,
                             !.sfx.crackleLFO = TRUE,
                             !.sfx.crackleNoise = TRUE,
                             !.log = @ \o <<"start:crackleLFO", "attack:crackleNoise">>]
              ELSE w
    IN Emit(Emit(RampSfxGain(w1, "crackleGain", volume), "rampParam"), "rampParam")

\* setBridgeAttraction(strength), strength in 1e-3; its 1500 ms timer is due
\* after every 500 ms timer pending when it is set, whose number it carries
SFXSetBridgeAttraction(w, strength) ==
  IF ~w.sfx.initialized THEN w
  ELSE IF strength <= 0
  THEN IF w.sfx.attractActive
       THEN SetTimeout(RampSfxGain(w, "attractGain", 100), "attractOff",
                       CopiesIn(Timer("crackleOff", 0), w.timers))
       ELSE w
  ELSE
    LET volume == 20000 + strength * 40
        w1 == IF ~w.sfx.attractActive
              THEN [w EXCEPT !.sfx.attractActive = TRUE,
                             !.sfx.attractSynth = TRUE,
                             !.log = Append(@, "attack:attractSynth")]
              ELSE w
    IN Emit(Emit(RampSfxGain(w1, "attractGain", volume), "rampParam"), "rampParam")

\* the 500 ms callback of setChamberCrackling(0)
CrackleOff(w) ==
  [w EXCEPT !.sfx.crackleNoise = FALSE,
            !.sfx.crackleLFO = FALSE,
            !.sfx.crackleActive = FALSE,
            !.log = @ \o <<"release:crackleNoise", "stop:crackleLFO">>]

\* the 1500 ms callback of setBridgeAttraction(0)
AttractOff(w) ==
  [w EXCEPT !.sfx.attractSynth = FALSE,
            !.sfx.attractActive = FALSE,
            !.log = Append(@, "release:attractSynth")]

\* dispose() whose fade-out timers are set whether or not a texture is active
SFXDispose_UnguardedTimers(w) ==
  LET w1 == SetTimeout(SetTimeout(w, "crackleOff", 0), "attractOff", 0)
  IN [w1 EXCEPT !.sfx.initialized = FALSE, !.log = Append(@, "dispose:SFXEngine")]

SFXDispose(w) ==
  LET w1 == SFXSetBridgeAttraction(SFXSetChamberCrackling(w, 0), 0)
  IN [w1 EXCEPT !.sfx.initialized = FALSE, !.log = Append(@, "dispose:SFXEngine")]

PlayMethods ==
  {"playCollect", "playSuperStarCollect", "playRejectDischarge", "playCapture",
   "playDischarge", "playLevelUp", "playMaxStack", "playModalEnter",
   "playModalClose", "playChamberCapture", "playBridgeSpawn",
   "playCollectionComplete", "playRedHeartCapture", "playSpiralSpawn",
   "playSpiralDefeat", "playSpiralDamage"}

\* the calls into the soundscape at the end of a play*() method
SFXSoundscapeCalls(w, m, level) ==
  CASE m \in {"playCapture", "playDischarge", "playBridgeSpawn"} -> ASSwell(w)
    [] m = "playLevelUp" -> ASSetGameLevel(w, level)
    [] m = "playMaxStack" -> ASSetGameLevel(ASSwell(w), 10)
    [] OTHER -> w

\* SFXEngine.play*() with its gesture taken as one event: the gesture, then
\* the calls into the soundscape
SFXPlay(w, m, level) ==
  IF ~w.sfx.initialized THEN w
  ELSE SFXSoundscapeCalls(Emit(w, "trigger:sfx"), m, level)

(* The gestures trigger by trigger.  A trigger is one triggerRelease or    *)
(* triggerAttackRelease call on a voice, scheduled dt milliseconds after   *)
(* the call's `now = Tone.now()`; tried says that it stands in a try block  *)
(* whose catch ignores the error.  The automation of the noise filter is   *)
(* left out.                                                               *)

Cmd(v, c, dt, tried) == [v |-> v, c |-> c, dt |-> dt, tried |-> tried]

\* one triggerAttackRelease, outside any try block
AR(v, dt) == Cmd(v, "attackRelease", dt, FALSE)

\* a forEach over n notes: one triggerAttackRelease each, step apart
Arp(v, n, start, step) == [k \in 1..n |-> AR(v, start + (k - 1) * step)]

\* `try { subSynth.triggerRelease(now) } catch (e) {}`, then the attack
SubRetrigger(dt) == <<Cmd("sub", "release", 0, TRUE), AR("sub", dt)>>

\* the triggers of method m in the order the method issues them; n is
\* params.level or params.count, combo is collectCombo after its update
Gesture(m, n, combo) ==
  CASE m = "playCollect" ->
         <<AR("melodic", 0)>>
         \o (IF combo >= 5 THEN <<AR("sub", 0)>> ELSE <<>>)
         \o (IF combo >= 6 THEN <<AR("harmonic", 10)>> ELSE <<>>)
    [] m = "playSuperStarCollect" ->
         <<AR("melodic", 0), AR("melodic", 15), AR("harmonic", 40)>>
    [] m = "playRejectDischarge" ->
         SubRetrigger(0) \o <<AR("melodic", 20), AR("noise", 10)>>
    [] m = "playCapture" ->
         SubRetrigger(10) \o <<AR("melodic", 30), Cmd("noise", "attackRelease", 20, TRUE)>>
    [] m = "playRedHeartCapture" ->
         SubRetrigger(50)
         \o <<AR("melodic", 80), AR("harmonic", 120), AR("harmonic", 180),
              AR("harmonic", 250), AR("noise", 100)>>
    [] m = "playDischarge" ->
         SubRetrigger(10) \o <<AR("melodic", 50), AR("harmonic", 100), AR("noise", 0)>>
    [] m = "playLevelUp" ->
         LET notes == Min(6, 3 + (n \div 3))
         IN Arp("melodic", notes, 0, 80)
            \o <<AR("sub", 80 * notes), AR("harmonic", 80 * notes + 150)>>
    [] m = "playMaxStack" ->
         Arp("melodic", 7, 10, 60)
         \o SubRetrigger(10 + 7 * 60)
         \o Arp("harmonic", 4, 10 + 7 * 60 + 100, 150)
         \o <<Cmd("noise", "attackRelease", 20, TRUE)>>
    [] m = "playModalEnter" ->
         <<AR("melodic", 0), AR("melodic", 80), AR("harmonic", 100)>>
    [] m = "playModalClose" -> <<AR("melodic", 0), AR("melodic", 100)>>
    [] m = "playChamberCapture" ->
         <<AR("melodic", 0)>> \o (IF n >= 3 THEN <<AR("harmonic", 30)>> ELSE <<>>)
    [] m = "playBridgeSpawn" ->
         SubRetrigger(10)
         \o Arp("melodic", 5, 150, 80)
         \o <<AR("harmonic", 400), AR("noise", 0)>>
    [] m = "playCollectionComplete" ->
         Arp("melodic", 4, 0, 120) \o <<AR("harmonic", 400)>>
    [] m = "playSpiralSpawn" ->
         SubRetrigger(50)
         \o <<AR("melodic", 100), AR("harmonic", 150), AR("harmonic", 300)>>
    [] m = "playSpiralDefeat" ->
         <<AR("noise", 50), AR("melodic", 100), AR("harmonic", 200)>>
    [] m = "playSpiralDamage" ->
         SubRetrigger(50) \o <<AR("melodic", 80), AR("noise", 50)>>

\* the command a trigger leaves in the log
CmdName(x) ==
  CASE x.c = "release" -> "release:sub"
    [] x.v = "sub" -> "attackRelease:sub"
    [] x.v = "melodic" -> "attackRelease:melodic"
    [] x.v = "harmonic" -> "attackRelease:harmonic"
    [] x.v = "noise" -> "attackRelease:noise"

\* SFXEngine.play*() at Tone.now() = w.clock, with every trigger call on the
\* voice `bad` throwing ("none": no call throws).  A throw outside a try
\* block ends the method there and leaves it as "uncaught:SFXEngine";
\* subSched keeps, call by call, the times scheduled on the sub voice.
SFXTrigger(w, m, n, bad) ==
  IF ~w.sfx.initialized THEN w
  ELSE
    LET now == w.clock
        w0 == IF m = "playCollect"
              THEN [SFXPlayCollect(w, Undefined) EXCEPT !.log = w.log]
              ELSE w
        cmds == Gesture(m, n, w0.sfx.collectCombo)
        thrown == {k \in 1..Len(cmds) : cmds[k].v = bad /\ ~cmds[k].tried}
        last == IF thrown = {} THEN Len(cmds)
                ELSE (CHOOSE k \in thrown : \A j \in thrown : k <= j) - 1
        made == SelectSeq(SubSeq(cmds, 1, last), LAMBDA x : x.v # bad)
        sub == SelectSeq(made, LAMBDA x : x.v = "sub")
        w1 == [w0 EXCEPT
                 !.log = @ \o [k \in 1..Len(made) |-> CmdName(made[k])],
                 !.sfx.subSched =
                   IF sub = <<>> THEN @
                   ELSE Append(@, [now |-> now,
                                   times |-> [k \in 1..Len(sub) |-> now + sub[k].dt]])]
    IN IF thrown = {} THEN SFXSoundscapeCalls(w1, m, n)
       ELSE Emit(w1, "uncaught:SFXEngine")

----------------------------------------------------------------------------
(* MusicLoopSystem *)

TrackNames == <<"base", "hihat", "saw", "bass">>

Tracks == {TrackNames[i] : i \in 1..Len(TrackNames)}

\* LEVEL_TRACK[level] || 'bass'; "null" stands for null
GetTrackForLevel(level) ==
  IF level = 0 THEN "null"
  ELSE IF level \in 1..2 THEN "base"
  ELSE IF level \in 3..4 THEN "hihat"
  ELSE IF level \in 5..7 THEN "saw"
  ELSE "bass"

\* the pending source-stop timers keep the track objects they were set for:
\* once this.tracks is rebuilt or cleared they act on objects no longer in it
OrphanSrcStops(w) ==
  LET n == Cardinality({i \in 1..Len(TrackNames) : BagIn(Timer("srcStop", i), w.timers)})
      m == CopiesIn(Timer("srcStop", 0), w.timers)
      kept == [t \in {u \in BagToSet(w.timers) : u.k # "srcStop"} |-> CopiesIn(t, w.timers)]
      total == m + n
  IN [w EXCEPT !.timers = IF total = 0 THEN kept
                          ELSE kept (+) [t \in {Timer("srcStop", 0)} |-> total]]

\* init() up to `await Promise.all(loadPromises)`: the loads of an invocation
\* that has not finished go on, into track objects this.tracks no longer holds
MLSInitBegin(w) ==
  IF w.mls.initialized THEN w
  ELSE
    LET w1 == OrphanSrcStops(w)
    IN [w1 EXCEPT !.mls.audioContext = TRUE,
                  !.mls.hasTracks = TRUE,
                  !.mls.gain = [t \in Tracks |-> 0],
                  !.mls.buffer = [t \in Tracks |-> FALSE],
                  !.mls.source = [t \in Tracks |-> FALSE],
                  !.mls.staleInits = @ + (IF w.mls.pending # {} THEN 1 ELSE 0),
                  !.mls.pending = Tracks,
                  !.log = Append(@, "new:tracks")]

\* init() after `await Promise.all(loadPromises)`
MLSInitEnd(w) ==
  [w EXCEPT !.mls.initialized = TRUE, !.log = Append(@, "MusicLoopSystem: Ready")]

\* one of the loadPromises of the invocation that built this.tracks settles,
\* ok = the file was fetched and decoded; the last one resumes init()
MLSLoadSettled(w, t, ok) ==
  LET w1 == [w EXCEPT !.mls.buffer[t] = ok, !.mls.pending = @ \ {t}]
  IN IF w1.mls.pending = {} THEN MLSInitEnd(w1) ELSE w1

\* the loadPromises of an invocation whose tracks were replaced or cleared
\* have all settled
MLSStaleLoadsSettled(w) ==
  MLSInitEnd([w EXCEPT !.mls.staleInits = @ - 1])

\* setTrackVolume(trackName, volume)
MLSSetTrackVolume(w, trackName, volume) ==
  IF ~w.mls.hasTracks THEN w
  ELSE [w EXCEPT !.mls.gain[trackName] = volume, !.log = Append(@, "rampGain")]

\* start() that starts the sources and leaves every gain alone
MLSStart_Muted(w) ==
  IF ~w.mls.initialized \/ ~w.mls.audioContext THEN w
  ELSE IF w.mls.started THEN w
  ELSE [w EXCEPT !.mls.source = [t \in Tracks |-> @[t] \/ (w.mls.hasTracks /\ w.mls.buffer[t])],
                 !.mls.started = TRUE,
                 !.log = Append(@, "start:sources")]

MLSStart(w) ==
  IF ~w.mls.initialized \/ ~w.mls.audioContext THEN w
  ELSE IF w.mls.started THEN w
  ELSE
    LET w1 == [w EXCEPT !.mls.source =
                           [t \in Tracks |-> @[t] \/ (w.mls.hasTracks /\ w.mls.buffer[t])],
                        !.log = Append(@, "start:sources")]
        targetTrack == GetTrackForLevel(w1.mls.currentLevel)
        w2 == IF w1.mls.currentLevel >= 1 /\ targetTrack # "null"
              THEN MLSSetTrackVolume(w1, targetTrack, 1)
              ELSE w1
    IN [w2 EXCEPT !.mls.started = TRUE]

RECURSIVE StopTracks(_, _)
\* the loop of stop() over the tracks i..4
StopTracks(w, i) ==
  IF i > Len(TrackNames) THEN w
  ELSE
    LET t == TrackNames[i]
    IN IF w.mls.hasTracks /\ w.mls.source[t]
       THEN StopTracks(SetTimeout([w EXCEPT !.mls.gain[t] = 0,
                                            !.log = Append(@, "rampGain")],
                                  "srcStop", i), i + 1)
       ELSE StopTracks(w, i + 1)

MLSStop(w) ==
  IF ~w.mls.started THEN w
  ELSE [StopTracks(w, 1) EXCEPT !.mls.started = FALSE]

MLSSetLevel(w, level) ==
  IF ~w.mls.initialized THEN w
  ELSE
    LET w1 == [w EXCEPT !.mls.currentLevel = level]
        targetTrack == GetTrackForLevel(level)
    IN IF ~w1.mls.started
       THEN [w1 EXCEPT !.mls.currentTrack = IF targetTrack = "null" THEN "base" ELSE targetTrack]
       ELSE IF targetTrack = "null"
       THEN MLSSetTrackVolume(w1, w1.mls.currentTrack, 0)
       ELSE IF targetTrack = w1.mls.currentTrack THEN w1
       ELSE [MLSSetTrackVolume(MLSSetTrackVolume(w1, w1.mls.currentTrack, 0), targetTrack, 1)
               EXCEPT !.mls.currentTrack = targetTrack]

MLSDispose(w) ==
  LET w1 == OrphanSrcStops(MLSStop(w))
  IN [w1 EXCEPT !.mls.hasTracks = FALSE,
                !.mls.gain = [t \in Tracks |-> 0],
                !.mls.buffer = [t \in Tracks |-> FALSE],
                !.mls.source = [t \in Tracks |-> FALSE],
                !.mls.staleInits = @ + (IF w.mls.pending # {} THEN 1 ELSE 0),
                !.mls.pending = {},
                !.mls.initialized = FALSE,
                !.mls.started = FALSE,
                !.log = Append(@, "MusicLoopSystem: Disposed")]

\* the 600 ms callback of stop() for track i (0: a track no longer in this.tracks)
SrcStop(w, i) ==
  IF i = 0 THEN Emit(w, "stop:source")
  ELSE [w EXCEPT !.mls.source[TrackNames[i]] = FALSE, !.log = Append(@, "stop:source")]

----------------------------------------------------------------------------
(* SFXEngine (the variant wired to MusicLoopSystem) *)

SFXLInit(w) ==
  IF w.sfxL.initialized THEN w
  ELSE IF ~(w.ec.warmFilter /\ w.ec.reverbSend /\ w.ec.delaySend)
  THEN Emit(w, "warn:EffectChain not initialized")
  ELSE [w EXCEPT !.sfxL.initialized = TRUE, !.log = Append(@, "new:sfx")]

\* playYouDied(), c = Tone.context.state
SFXLPlayYouDied(w, c) ==
  IF ~w.sfxL.initialized THEN w
  ELSE
    LET w1 == MLSStop(w)
    IN IF c # "running" THEN w1 ELSE Emit(w1, "trigger:sfx")

\* playLevelUp(params), c = Tone.context.state
SFXLPlayLevelUp(w, c, level) ==
  IF ~w.sfxL.initialized THEN w
  ELSE IF c # "running" THEN w
  ELSE MLSSetLevel(Emit(w, "trigger:sfx"), level)

SFXLDispose(w) ==
  [w EXCEPT !.sfxL.initialized = FALSE, !.log = Append(@, "dispose:SFXEngine")]

----------------------------------------------------------------------------
(* ToneAudioSystem *)

UnlockPcs == {"toneStart", "ctxResume", "rawResume", "silent"}

\* unlockAudio() from its start to the first await: Tone.start() is awaited
TASUnlockBegin(w) ==
  [Emit(w, "unlock.begin") EXCEPT !.pc = "toneStart"]

\* init() that goes on awaiting EffectChain.init() when the await has ended
TASInitFromEC_KeepsWaiting(w, how) ==
  [Emit(w, how) EXCEPT !.pc = "ec"]

\* init(), from the end of `await withTimeout(EffectChain.init(), ...)` on;
\* AmbientSoundscape.init() and SFXEngine.init() contain no await, so their
\* promises are resolved when they return
TASInitFromEC(w, how) ==
  LET w1 == Emit(Emit(w, how), "call:AS.init")
      w2 == Emit(Emit(ASInit(w1), "AS.init:resolved"), "call:SFX.init")
      w3 == Emit(SFXInit(w2), "SFX.init:resolved")
  IN [w3 EXCEPT !.tas.initialized = TRUE,
                !.pc = "done",
                !.log = Append(@, "initialized:=true")]

\* init() with the await on EffectChain.init() missing
TASInitFromUnlock_NoAwait(w, throws) ==
  LET w1 == Emit(w, "call:EC.init")
  IN IF w1.ec.initialized THEN TASInitFromEC(w1, "EC.init:resolved")
     ELSE IF throws THEN [Emit(w1, "EC.init:rejected") EXCEPT !.pc = "failed", !.ecpc = "failed"]
     ELSE TASInitFromEC([ECInitBegin(w1) EXCEPT !.ecpc = "generating"], "EC.init:pending")

\* init(), from the return of unlockAudio() to the next await: calls
\* EffectChain.init(); throws = a Tone constructor of the chain throws
TASInitFromUnlock(w, throws) ==
  LET w1 == Emit(w, "call:EC.init")
  IN IF w1.ec.initialized THEN TASInitFromEC(w1, "EC.init:resolved")
     ELSE IF throws THEN [Emit(w1, "EC.init:rejected") EXCEPT !.pc = "failed", !.ecpc = "failed"]
     ELSE [ECInitBegin(w1) EXCEPT !.pc = "ec", !.ecpc = "generating"]

\* the end of unlockAudio(): resume() returns, init() goes on
TASUnlockEnd(w, kind, throws) ==
  LET w1 == Emit(w, "unlock.end")
  IN IF kind = "init" THEN TASInitFromUnlock(w1, throws)
     ELSE [w1 EXCEPT !.pc = "done"]

\* method 4 of unlockAudio(): the silent buffer; silentThrows = the try block
\* throws before its await
TASUnlockSilent(w, kind, silentThrows, throws) ==
  IF silentThrows THEN TASUnlockEnd(Emit(w, "warn:silent buffer failed"), kind, throws)
  ELSE [Emit(w, "start:silentBuffer") EXCEPT !.pc = "silent"]

\* unlockAudio() after `await withTimeout(Tone.start(), 2000)`, c = context state
TASUnlockFromToneStart(w, c, kind, silentThrows, throws) ==
  IF c = "suspended" THEN [Emit(w, "call:context.resume") EXCEPT !.pc = "ctxResume"]
  ELSE IF c # "running" THEN [Emit(w, "call:rawContext.resume") EXCEPT !.pc = "rawResume"]
  ELSE TASUnlockSilent(w, kind, silentThrows, throws)

\* unlockAudio() after `await withTimeout(Tone.context.resume(), 2000)`
TASUnlockFromCtxResume(w, c, kind, silentThrows, throws) ==
  IF c # "running" THEN [Emit(w, "call:rawContext.resume") EXCEPT !.pc = "rawResume"]
  ELSE TASUnlockSilent(w, kind, silentThrows, throws)

\* unlockAudio() after `await withTimeout(rawContext.resume(), 2000)`
TASUnlockFromRawResume(w, kind, silentThrows, throws) ==
  TASUnlockSilent(w, kind, silentThrows, throws)

TASInit(w) ==
  IF w.tas.initialized THEN [Emit(w, "already initialized") EXCEPT !.pc = "done"]
  ELSE TASUnlockBegin(w)

TASResume(w) == TASUnlockBegin(w)

\* toggleMute() that only silences the master channel on the way back
TASToggleMute_NoRestart(w) ==
  LET w1 == [w EXCEPT !.tas.muted = ~@]
      w2 == ECSetMuted(w1, w1.tas.muted)
  IN IF w2.tas.muted THEN ASStop(w2) ELSE w2


TASToggleMute(w) ==
  LET w1 == [w EXCEPT !.tas.muted = ~@]
      w2 == ECSetMuted(w1, w1.tas.muted)
  IN IF w2.tas.muted THEN ASStop(w2)
     ELSE IF w2.tas.soundscapeStartedInternal THEN ASStart(w2)
     ELSE w2

\* an event method that checks `initialized` only
TASPlay_NoMuteCheck(w, m, level) ==
  IF ~w.tas.initialized THEN w
  ELSE SFXPlay(Emit(w, "fwd:SFXEngine"), m, level)


TASPlay(w, m, level) ==
  IF ~w.tas.initialized \/ w.tas.muted THEN w
  ELSE SFXPlay(Emit(w, "fwd:SFXEngine"), m, level)

\* the event methods with the gesture of the SFXEngine trigger by trigger
TASTrigger(w, m, n, bad) ==
  IF ~w.tas.initialized \/ w.tas.muted THEN w
  ELSE SFXTrigger(Emit(w, "fwd:SFXEngine"), m, n, bad)

TASPlayTestBeep(w) == Emit(w, "start:testOsc")

TASStartBgMusic(w) ==
  IF ~w.tas.initialized \/ w.tas.muted \/ w.tas.soundscapeStartedInternal THEN w
  ELSE ASStart([w EXCEPT !.tas.soundscapeStartedInternal = TRUE])

TASStopBgMusic(w) ==
  IF ~w.tas.soundscapeStartedInternal THEN w
  ELSE [ASStop(w) EXCEPT !.tas.soundscapeStartedInternal = FALSE]

TASSetIntensity(w, v) == ASSetIntensity(w, v)

TASSetGameLevel(w, l) == ASSetGameLevel(w, l)

TASTriggerSwell(w) == ASSwell(w)

TASSetInvertedMode(w, active) ==
  IF ~w.tas.initialized \/ w.tas.muted THEN w
  ELSE ASSetInvertedMode(
         ECSetUnderwaterMode(Emit(w, "fwd:EffectChain"), active), active)

TASDispose(w) ==
  [ECDispose(ASDispose(SFXDispose(w)))
     EXCEPT !.tas.initialized = FALSE,
            !.tas.soundscapeStartedInternal = FALSE]

----------------------------------------------------------------------------
(* State *)

World ==
  [tas |-> tas, ec |-> ec, amb |-> amb, sfx |-> sfx, mls |-> mls, sfxL |-> sfxL,
   clock |-> clock, timers |-> timers, transport |-> transport, log |-> <<>>]

\* the world as an asynchronous invocation sees it when it runs: pc is where
\* the invocation suspends next, ecpc the state of its EffectChain.init()
WorldOf(c) ==
  [tas |-> tas, ec |-> ec, amb |-> amb, sfx |-> sfx, mls |-> mls, sfxL |-> sfxL,
   clock |-> clock, timers |-> timers, transport |-> transport, log |-> <<>>,
   pc |-> c.pc, ecpc |-> c.ec]

Commit(w, name, ret) ==
  /\ tas' = w.tas
  /\ ec' = w.ec
  /\ amb' = w.amb
  /\ sfx' = w.sfx
  /\ mls' = w.mls
  /\ sfxL' = w.sfxL
  /\ clock' = w.clock
  /\ timers' = w.timers
  /\ transport' = w.transport
  /\ log' = w.log
  /\ op' = [name |-> name, ret |-> ret]
  /\ hist' = IF name \in {"AS.setIntensity", "AS.setGameLevel"}
             THEN [intensity |-> w.amb.intensity]
             ELSE hist

TasInit == [initialized |-> FALSE, muted |-> FALSE, soundscapeStartedInternal |-> FALSE]

EcInit ==
  [initialized |-> FALSE, masterChannel |-> FALSE, masterMute |-> FALSE,
   reverbSend |-> FALSE, delaySend |-> FALSE, warmFilter |-> FALSE,
   filterTarget |-> 0, masterVolume |-> 0, reverbVolume |-> 0, delayVolume |-> 0,
   created |-> [masterChannel |-> 0, reverbSend |-> 0, delaySend |-> 0, warmFilter |-> 0]]

AmbInit ==
  [initialized |-> FALSE, active |-> FALSE, invertedMode |-> FALSE,
   intensity |-> 500, gameLevel |-> 1,
   currentDroneIndex |-> 0, currentChordIndex |-> 0, chordLoop |-> FALSE,
   bassChord |-> 0,
   subOsc |-> FALSE, subGain |-> 0,
   droneSynths |-> NoDrones, droneGains |-> NoDrones, droneFilter |-> 0,
   stringSynth |-> FALSE, stringGain |-> 0,
   brassSynth |-> FALSE, brassGain |-> 0,
   shimmerGain |-> 0,
   pulseGain |-> 0, pulseLoop |-> FALSE]

MlsInit ==
  [initialized |-> FALSE, started |-> FALSE, currentLevel |-> 0,
   currentTrack |-> "base", audioContext |-> FALSE, hasTracks |-> FALSE,
   gain |-> [t \in Tracks |-> 0],
   buffer |-> [t \in Tracks |-> FALSE],
   source |-> [t \in Tracks |-> FALSE],
   pending |-> {}, staleInits |-> 0]

SfxLInit == [initialized |-> FALSE]

\* Date.now() when the page is loaded: far more than the combo window after 0
DateNowAtLoad == 1000

SfxInit ==
  [initialized |-> FALSE,
   collectCombo |-> 0, lastCollectTime |-> 0, baseVelocity |-> 0, velocity |-> 0,
   crackleActive |-> FALSE, spiralSuctionActive |-> FALSE, attractActive |-> FALSE,
   crackleNoise |-> FALSE, crackleLFO |-> FALSE, crackleGain |-> 0,
   attractSynth |-> FALSE, attractGain |-> 0,
   subSched |-> <<>>]

\* no caller has set the intensity yet: the field's initial value
NoHist == [intensity |-> AmbInit.intensity]

NoCall == [kind |-> "none", pc |-> "idle", ec |-> "none"]

Init ==
  /\ tas = TasInit
  /\ ec = EcInit
  /\ amb = AmbInit
  /\ sfx = SfxInit
  /\ mls = MlsInit
  /\ sfxL = SfxLInit
  /\ clock = DateNowAtLoad
  /\ timers = EmptyBag
  /\ transport = [started |-> FALSE, bpm |-> 120]
  /\ calls = [i \in Calls |-> NoCall]
  /\ ctx = "suspended"
  /\ log = <<>>
  /\ op = [name |-> "new", ret |-> "void"]
  /\ nOps = 0
  /\ hist = NoHist

----------------------------------------------------------------------------
(* The soundscape driven directly through its exported singleton, on an    *)
(* effect chain whose init() has completed.                                *)

InitAS ==
  /\ tas = TasInit
  /\ ec = ECInitEnd(ECInitBegin([ec |-> EcInit, log |-> <<>>])).ec
  /\ amb = AmbInit
  /\ sfx = SfxInit
  /\ mls = MlsInit
  /\ sfxL = SfxLInit
  /\ clock = DateNowAtLoad
  /\ timers = EmptyBag
  /\ transport = [started |-> FALSE, bpm |-> 120]
  /\ calls = [i \in Calls |-> NoCall]
  /\ ctx = "running"
  /\ log = <<>>
  /\ op = [name |-> "new", ret |-> "void"]
  /\ nOps = 0
  /\ hist = NoHist

\* a public method of the soundscape is called
Do(w, name) ==
  /\ nOps < MaxOps
  /\ nOps' = nOps + 1
  /\ Commit(w, name, "void")
  /\ UNCHANGED <<calls, ctx>>

CallASInit == Do(ASInit(World), "AS.init")
CallASStart == Do(ASStart(World), "AS.start")
CallASStop == Do(ASStop(World), "AS.stop")
CallASSetIntensity == \E v \in IntensityInputs : Do(ASSetIntensity(World, v), "AS.setIntensity")
CallASSetGameLevel == \E l \in LevelInputs : Do(ASSetGameLevel(World, l), "AS.setGameLevel")
CallASSetInvertedOn == Do(ASSetInvertedMode(World, TRUE), "AS.setInvertedMode(true)")
CallASSetInvertedOff == Do(ASSetInvertedMode(World, FALSE), "AS.setInvertedMode(false)")
CallASSwell == Do(ASSwell(World), "AS.swell")
CallASDispose == Do(ASDispose(World), "AS.dispose")

(* Host timers.  Timers fire in the order of their due times, so a timer  *)
(* set no later than another one and with a shorter delay fires first: the *)
(* chord timer (12 s or more) is always set after, or together with, the   *)
(* pending drone-release (5 s), shimmer (2 s) and stop-release (6 s)       *)
(* timers.                                                                 *)

Taken(t) == [World EXCEPT !.timers = @ (-) SetToBag({t})]

Fire(w, name) ==
  /\ Commit(w, name, "void")
  /\ UNCHANGED <<calls, ctx, nOps>>

DueBeforeChord == {"droneRel", "shimmer", "release"}

FireChord ==
  \E t \in BagToSet(timers) :
    /\ t.k = "chord"
    /\ \A u \in BagToSet(timers) : u.k \notin DueBeforeChord
    /\ nOps < MaxOps
    /\ nOps' = nOps + 1
    /\ Commit(AdvanceChord(Taken(t)), "timer:advanceChord", "void")
    /\ UNCHANGED <<calls, ctx>>

FireDroneRelease ==
  \E t \in BagToSet(timers) :
    t.k = "droneRel" /\ Fire(DroneRelease(Taken(t), t.a), "timer:droneRelease")

FireShimmer ==
  \E t \in BagToSet(timers) :
    t.k = "shimmer" /\ Fire(Shimmer(Taken(t)), "timer:shimmer")

FireStopRelease ==
  \E t \in BagToSet(timers) :
    t.k = "release" /\ Fire(StopRelease(Taken(t)), "timer:stopRelease")

FirePulseStop ==
  \E t \in BagToSet(timers) :
    t.k = "pulseStop" /\ Fire(PulseStop(Taken(t)), "timer:pulseStop")

FireSwellReturn ==
  \E t \in BagToSet(timers) :
    t.k = "swell" /\ Fire(SwellReturn(Taken(t), t.a), "timer:swellReturn")

FireTimer ==
  \/ FireChord
  \/ FireDroneRelease
  \/ FireShimmer
  \/ FireStopRelease
  \/ FirePulseStop
  \/ FireSwellReturn

NextAS ==
  \/ CallASInit
  \/ CallASStart
  \/ CallASStop
  \/ CallASSetIntensity
  \/ CallASSetGameLevel
  \/ CallASSetInvertedOn
  \/ CallASSetInvertedOff
  \/ CallASSwell
  \/ CallASDispose
  \/ FireTimer

SpecAS == InitAS /\ [][NextAS]_vars

----------------------------------------------------------------------------
(* The whole system driven through the orchestrator. *)

CtxStates == {"suspended", "running"}

\* a public synchronous method of ToneAudioSystem is called
DoTAS(w, name, ret) ==
  /\ nOps < MaxOps
  /\ nOps' = nOps + 1
  /\ Commit(w, name, ret)
  /\ UNCHANGED <<calls, ctx>>

\* invocation i runs up to its next await and suspends at w.pc
Run(i, w, name) ==
  /\ Commit(w, name, "void")
  /\ calls' = [calls EXCEPT ![i].pc = w.pc, ![i].ec = w.ecpc]

FreeCall(i) ==
  /\ calls[i].kind = "none"
  /\ \A j \in Calls : j < i => calls[j].kind # "none"

CallInit ==
  \E i \in Calls :
    /\ FreeCall(i)
    /\ nOps < MaxOps
    /\ nOps' = nOps + 1
    /\ LET w == TASInit(WorldOf(calls[i]))
       IN /\ Commit(w, "TAS.init", "void")
          /\ calls' = [calls EXCEPT ![i] = [kind |-> "init", pc |-> w.pc, ec |-> w.ecpc]]
    /\ UNCHANGED ctx

CallResume ==
  \E i \in Calls :
    /\ FreeCall(i)
    /\ nOps < MaxOps
    /\ nOps' = nOps + 1
    /\ LET w == TASResume(WorldOf(calls[i]))
       IN /\ Commit(w, "TAS.resume", "void")
          /\ calls' = [calls EXCEPT ![i] = [kind |-> "resume", pc |-> w.pc, ec |-> w.ecpc]]
    /\ UNCHANGED ctx

CallToggleMute ==
  LET w == TASToggleMute(World)
  IN DoTAS(w, "TAS.toggleMute", IF w.tas.muted THEN "true" ELSE "false")

CallPlay ==
  \E m \in PlayMethods, l \in LevelInputs : DoTAS(TASPlay(World, m, l), "TAS.play", "void")

CallPlayTestBeep == DoTAS(TASPlayTestBeep(World), "TAS.playTestBeep", "void")
CallStartBgMusic == DoTAS(TASStartBgMusic(World), "TAS.startBgMusic", "void")
CallStopBgMusic == DoTAS(TASStopBgMusic(World), "TAS.stopBgMusic", "void")
CallSetIntensity == \E v \in IntensityInputs : DoTAS(TASSetIntensity(World, v), "TAS.setIntensity", "void")
CallSetGameLevel == \E l \in LevelInputs : DoTAS(TASSetGameLevel(World, l), "TAS.setGameLevel", "void")
CallTriggerSwell == DoTAS(TASTriggerSwell(World), "TAS.triggerSwell", "void")
CallSetInvertedMode == \E a \in BOOLEAN : DoTAS(TASSetInvertedMode(World, a), "TAS.setInvertedMode", "void")
CallDispose == DoTAS(TASDispose(World), "TAS.dispose", "void")

(* Platform promises settling (resolved, rejected or given up after the    *)
(* timeout), each with the continuation that runs in its microtasks.  The  *)
(* context state c is read by the continuation.                            *)

SettleToneStart ==
  \E i \in Calls, c \in CtxStates, st \in BOOLEAN, th \in BOOLEAN :
    /\ calls[i].pc = "toneStart"
    /\ ctx' = c
    /\ Run(i, TASUnlockFromToneStart(WorldOf(calls[i]), c, calls[i].kind, st, th), "settle:Tone.start")
    /\ UNCHANGED nOps

SettleCtxResume ==
  \E i \in Calls, c \in CtxStates, st \in BOOLEAN, th \in BOOLEAN :
    /\ calls[i].pc = "ctxResume"
    /\ ctx' = c
    /\ Run(i, TASUnlockFromCtxResume(WorldOf(calls[i]), c, calls[i].kind, st, th), "settle:context.resume")
    /\ UNCHANGED nOps

SettleRawResume ==
  \E i \in Calls, c \in CtxStates, st \in BOOLEAN, th \in BOOLEAN :
    /\ calls[i].pc = "rawResume"
    /\ ctx' = c
    /\ Run(i, TASUnlockFromRawResume(WorldOf(calls[i]), calls[i].kind, st, th), "settle:rawContext.resume")
    /\ UNCHANGED nOps

\* the 50 ms timer after the silent buffer
SilentElapsed ==
  \E i \in Calls, th \in BOOLEAN :
    /\ calls[i].pc = "silent"
    /\ Run(i, TASUnlockEnd(WorldOf(calls[i]), calls[i].kind, th), "timer:silentBuffer")
    /\ UNCHANGED <<ctx, nOps>>

\* reverb.generate() resolves: EffectChain.init() finishes and, if init() is
\* still awaiting it, init() goes on
ECGenerateResolved ==
  \E i \in Calls :
    /\ calls[i].ec = "generating"
    /\ LET w1 == [ECInitEnd(WorldOf(calls[i])) EXCEPT !.ecpc = "done"]
       IN Run(i, IF calls[i].pc = "ec" THEN TASInitFromEC(w1, "EC.init:resolved") ELSE w1,
              "settle:reverb.generate")
    /\ UNCHANGED <<ctx, nOps>>

\* reverb.generate() rejects: init() lands in its catch block
ECGenerateRejected ==
  \E i \in Calls :
    /\ calls[i].ec = "generating"
    /\ LET w1 == [WorldOf(calls[i]) EXCEPT !.ecpc = "failed"]
       IN Run(i, IF calls[i].pc = "ec"
                 THEN [Emit(w1, "EC.init:rejected") EXCEPT !.pc = "failed"]
                 ELSE w1,
              "reject:reverb.generate")
    /\ UNCHANGED <<ctx, nOps>>

\* the 5 s timeout of withTimeout(EffectChain.init()) wins the race
ECTimeout ==
  \E i \in Calls :
    /\ calls[i].pc = "ec"
    /\ calls[i].ec = "generating"
    /\ Run(i, TASInitFromEC(WorldOf(calls[i]), "EC.init:timeout"), "timeout:EC.init")
    /\ UNCHANGED <<ctx, nOps>>

Next ==
  \/ CallInit
  \/ CallResume
  \/ CallToggleMute
  \/ CallPlay
  \/ CallPlayTestBeep
  \/ CallStartBgMusic
  \/ CallStopBgMusic
  \/ CallSetIntensity
  \/ CallSetGameLevel
  \/ CallTriggerSwell
  \/ CallSetInvertedMode
  \/ CallDispose
  \/ SettleToneStart
  \/ SettleCtxResume
  \/ SettleRawResume
  \/ SilentElapsed
  \/ ECGenerateResolved
  \/ ECGenerateRejected
  \/ ECTimeout
  \/ FireTimer

Spec == Init /\ [][Next]_vars

(* The same system with the host's timers firing: the 2 s timeouts of the  *)
(* unlock steps, the 50 ms timer after the silent buffer and the 5 s       *)
(* timeout of EffectChain.init() end the await they guard if nothing else  *)
(* does.  Nothing is assumed about the platform promises themselves.       *)
SpecLive ==
  /\ Init /\ [][Next]_vars
  /\ WF_vars(SettleToneStart)
  /\ WF_vars(SettleCtxResume)
  /\ WF_vars(SettleRawResume)
  /\ WF_vars(SilentElapsed)
  /\ WF_vars(ECTimeout)

----------------------------------------------------------------------------
(* MusicLoopSystem driven directly, with the SFXEngine variant that is     *)
(* wired to it.  The effect chain is initialized; the audio context is     *)
(* running or still suspended.                                             *)

MlsLevelInputs == {0, 1, 2, 3, 5, 8}

InitMLS ==
  /\ tas = TasInit
  /\ ec = ECInitEnd(ECInitBegin([ec |-> EcInit, log |-> <<>>])).ec
  /\ amb = AmbInit
  /\ sfx = SfxInit
  /\ mls = MlsInit
  /\ sfxL = SfxLInit
  /\ clock = DateNowAtLoad
  /\ timers = EmptyBag
  /\ transport = [started |-> FALSE, bpm |-> 120]
  /\ calls = [i \in Calls |-> NoCall]
  /\ ctx \in {"running", "suspended"}
  /\ log = <<>>
  /\ op = [name |-> "new", ret |-> "void"]
  /\ nOps = 0
  /\ hist = NoHist

CallMLSInit == Do(MLSInitBegin(World), "MLS.init")
CallMLSStart == Do(MLSStart(World), "MLS.start")
CallMLSStop == Do(MLSStop(World), "MLS.stop")
CallMLSSetLevel == \E l \in MlsLevelInputs : Do(MLSSetLevel(World, l), "MLS.setLevel")
CallMLSDispose == Do(MLSDispose(World), "MLS.dispose")
CallSFXLInit == Do(SFXLInit(World), "SFXL.init")
CallSFXLPlayYouDied == Do(SFXLPlayYouDied(World, ctx), "SFXL.playYouDied")
CallSFXLPlayLevelUp ==
  \E l \in MlsLevelInputs : Do(SFXLPlayLevelUp(World, ctx, l), "SFXL.playLevelUp")
CallSFXLDispose == Do(SFXLDispose(World), "SFXL.dispose")

SettleLoad ==
  \E t \in mls.pending : \E ok \in BOOLEAN :
    Fire(MLSLoadSettled(World, t, ok), "MLS.loadSettled")

SettleStaleLoads ==
  /\ mls.staleInits > 0
  /\ Fire(MLSStaleLoadsSettled(World), "MLS.staleLoadsSettled")

FireSrcStop ==
  \E t \in BagToSet(timers) :
    t.k = "srcStop" /\ Fire(SrcStop(Taken(t), t.a), "timer:srcStop")

NextMLS ==
  \/ CallMLSInit
  \/ CallMLSStart
  \/ CallMLSStop
  \/ CallMLSSetLevel
  \/ CallMLSDispose
  \/ CallSFXLInit
  \/ CallSFXLPlayYouDied
  \/ CallSFXLPlayLevelUp
  \/ CallSFXLDispose
  \/ SettleLoad
  \/ SettleStaleLoads
  \/ FireSrcStop

SpecMLS == InitMLS /\ [][NextMLS]_vars

----------------------------------------------------------------------------
(* SFXEngine (the variant wired to AmbientSoundscape) driven directly: its *)
(* continuous textures and their timers.  The effect chain is initialized. *)

CountInputs == {0, 3, 5}

StrengthInputs == {0, 500}

InitSFX ==
  /\ tas = TasInit
  /\ ec = ECInitEnd(ECInitBegin([ec |-> EcInit, log |-> <<>>])).ec
  /\ amb = AmbInit
  /\ sfx = SfxInit
  /\ mls = MlsInit
  /\ sfxL = SfxLInit
  /\ clock = DateNowAtLoad
  /\ timers = EmptyBag
  /\ transport = [started |-> FALSE, bpm |-> 120]
  /\ calls = [i \in Calls |-> NoCall]
  /\ ctx = "running"
  /\ log = <<>>
  /\ op = [name |-> "new", ret |-> "void"]
  /\ nOps = 0
  /\ hist = NoHist

CallSFXInit == Do(SFXInit(World), "SFX.init")
CallSFXDispose == Do(SFXDispose(World), "SFX.dispose")
CallSetChamberCrackling ==
  \E n \in CountInputs :
    Do(SFXSetChamberCrackling(World, n),
       IF n <= 0 THEN "SFX.setChamberCrackling(0)" ELSE "SFX.setChamberCrackling(n)")
CallSetSpiralSuction ==
  \E i \in StrengthInputs :
    Do(SFXSetSpiralSuction(World, i),
       IF i <= 0 THEN "SFX.setSpiralSuction(0)" ELSE "SFX.setSpiralSuction(i)")
CallSetBridgeAttraction ==
  \E x \in StrengthInputs :
    Do(SFXSetBridgeAttraction(World, x),
       IF x <= 0 THEN "SFX.setBridgeAttraction(0)" ELSE "SFX.setBridgeAttraction(s)")

\* a 500 ms timer has fired: one fewer is due before each pending 1500 ms timer
AgeAttractOff(w) ==
  LET old == w.timers
      aged(t) == IF t.k = "attractOff" /\ t.a > 0 THEN Timer("attractOff", t.a - 1) ELSE t
      copies(u) ==
        (IF u.k = "attractOff" /\ u.a > 0 THEN 0 ELSE CopiesIn(u, old))
        + (IF u.k = "attractOff" THEN CopiesIn(Timer("attractOff", u.a + 1), old) ELSE 0)
  IN [w EXCEPT !.timers = [u \in {aged(t) : t \in BagToSet(old)} |-> copies(u)]]

FireCrackleOff ==
  \E t \in BagToSet(timers) :
    t.k = "crackleOff" /\ Fire(CrackleOff(AgeAttractOff(Taken(t))), "timer:crackleOff")

FireAttractOff ==
  \E t \in BagToSet(timers) :
    t.k = "attractOff" /\ t.a = 0 /\ Fire(AttractOff(Taken(t)), "timer:attractOff")

NextSFX ==
  \/ CallSFXInit
  \/ CallSFXDispose
  \/ CallSetChamberCrackling
  \/ CallSetSpiralSuction
  \/ CallSetBridgeAttraction
  \/ FireCrackleOff
  \/ FireAttractOff

SpecSFX == InitSFX /\ [][NextSFX]_vars

----------------------------------------------------------------------------
(* playCollect() called again and again on the freshly initialized         *)
(* SFXEngine, each call some milliseconds after the one before.            *)

\* milliseconds between two calls: well inside, just inside and just outside
\* the combo window
GapInputs == {50, 299, 300}

\* params.velocity, in 1e-4
VelocityInputs == {Undefined, 4000}

InitCombo ==
  /\ tas = TasInit
  /\ ec = ECInitEnd(ECInitBegin([ec |-> EcInit, log |-> <<>>])).ec
  /\ amb = AmbInit
  /\ sfx = SFXInit([ec |-> ec, sfx |-> SfxInit, log |-> <<>>]).sfx
  /\ mls = MlsInit
  /\ sfxL = SfxLInit
  /\ clock = DateNowAtLoad
  /\ timers = EmptyBag
  /\ transport = [started |-> FALSE, bpm |-> 120]
  /\ calls = [i \in Calls |-> NoCall]
  /\ ctx = "running"
  /\ log = <<>>
  /\ op = [name |-> "new", ret |-> "void"]
  /\ nOps = 0
  /\ hist = NoHist

CallPlayCollect ==
  \E g \in GapInputs : \E v \in VelocityInputs :
    /\ nOps < MaxCollects
    /\ nOps' = nOps + 1
    /\ Commit(SFXPlayCollect([World EXCEPT !.clock = @ + g], v), "SFX.playCollect", "void")
    /\ UNCHANGED <<calls, ctx>>

NextCombo == CallPlayCollect

SpecCombo == InitCombo /\ [][NextCombo]_vars

----------------------------------------------------------------------------
(* EffectChain driven directly through its public controls.                *)

\* setMasterVolume(db), in 1e-3 dB
DbInputs == {-12000, 0}

\* setReverbMix(amount) and setDelayMix(amount), in 1e-3: silent, the
\* threshold 0.01, half and full
MixInputs == {0, 10, 500, 1000}

\* setFilterFrequency(freq), in 0.1 Hz: below, at and above the limits
FreqInputs == {100, 200, 25000, 200000, 250000}

InitEC ==
  /\ tas = TasInit
  /\ ec = EcInit
  /\ amb = AmbInit
  /\ sfx = SfxInit
  /\ mls = MlsInit
  /\ sfxL = SfxLInit
  /\ clock = DateNowAtLoad
  /\ timers = EmptyBag
  /\ transport = [started |-> FALSE, bpm |-> 120]
  /\ calls = [i \in Calls |-> NoCall]
  /\ ctx = "running"
  /\ log = <<>>
  /\ op = [name |-> "new", ret |-> "void"]
  /\ nOps = 0
  /\ hist = NoHist

\* EffectChain.init() runs up to `await this.reverb.generate()`
CallECInit ==
  /\ nOps < MaxOps
  /\ nOps' = nOps + 1
  /\ UNCHANGED ctx
  /\ IF ec.initialized
     THEN Commit(World, "EC.init", "void") /\ UNCHANGED calls
     ELSE \E i \in Calls :
            /\ FreeCall(i)
            /\ Commit(ECInitBegin(World), "EC.init", "void")
            /\ calls' = [calls EXCEPT ![i] = [kind |-> "ecinit", pc |-> "done",
                                              ec |-> "generating"]]

CallECDispose == Do(ECDispose(World), "EC.dispose")
CallECSetMasterVolume ==
  \E db \in DbInputs : Do(ECSetMasterVolume(World, db), "EC.setMasterVolume")
CallECSetMuted == \E m \in BOOLEAN : Do(ECSetMuted(World, m), "EC.setMuted")
CallECSetReverbMix ==
  \E a \in MixInputs : Do(ECSetReverbMix(World, a), "EC.setReverbMix")
CallECSetDelayMix ==
  \E a \in MixInputs : Do(ECSetDelayMix(World, a), "EC.setDelayMix")
CallECSetFilterFrequency ==
  \E f \in FreqInputs : Do(ECSetFilterFrequency(World, f), "EC.setFilterFrequency")

NextEC ==
  \/ CallECInit
  \/ ECGenerateResolved
  \/ ECGenerateRejected
  \/ CallECDispose
  \/ CallECSetMasterVolume
  \/ CallECSetMuted
  \/ CallECSetReverbMix
  \/ CallECSetDelayMix
  \/ CallECSetFilterFrequency

SpecEC == InitEC /\ [][NextEC]_vars

----------------------------------------------------------------------------
(* The event methods after init(), with the gestures trigger by trigger:   *)
(* called through ToneAudioSystem and on the SFXEngine itself, at the same *)
(* instant as the call before or some milliseconds later, with the trigger *)
(* calls of one voice failing or none.                                     *)

\* milliseconds since the call before: none, and less than the 10 ms by
\* which most gestures delay their attack
TriggerGaps == {0, 5}

\* params.level and params.count
ParamInputs == {1, 10}

\* the voice whose trigger calls throw
BadVoices == {"none", "sub", "melodic"}

\* playCollect() calls made in quick succession before the behaviour starts
RapidCollects == {0, 5}

RECURSIVE Collected(_, _)
Collected(w, k) ==
  IF k = 0 THEN w
  ELSE Collected(SFXPlayCollect([w EXCEPT !.clock = @ + 50], Undefined), k - 1)

\* init() has completed; then k playCollect() calls 50 ms apart
AfterInit(k) ==
  LET w0 == [tas |-> [TasInit EXCEPT !.initialized = TRUE],
             ec |-> EcInit, amb |-> AmbInit, sfx |-> SfxInit, mls |-> MlsInit,
             sfxL |-> SfxLInit, clock |-> DateNowAtLoad, timers |-> EmptyBag,
             transport |-> [started |-> FALSE, bpm |-> 120], log |-> <<>>]
  IN Collected(SFXInit(ASInit(ECInitEnd(ECInitBegin(w0)))), k)

InitTrig ==
  \E k \in RapidCollects :
    LET w == AfterInit(k)
    IN /\ tas = w.tas
       /\ ec = w.ec
       /\ amb = w.amb
       /\ sfx = w.sfx
       /\ mls = w.mls
       /\ sfxL = w.sfxL
       /\ clock = w.clock
       /\ timers = w.timers
       /\ transport = w.transport
       /\ calls = [i \in Calls |-> NoCall]
       /\ ctx = "running"
       /\ log = <<>>
       /\ op = [name |-> "new", ret |-> "void"]
       /\ nOps = 0
       /\ hist = NoHist
  /\ hist = NoHist

\* the call returns, or the exception of the engine comes out of it
Outcome(w) == IF Has(w.log, "uncaught:SFXEngine") THEN "throws" ELSE "void"

CallTrigger ==
  \E m \in PlayMethods, n \in ParamInputs, bad \in BadVoices, g \in TriggerGaps :
    LET w == TASTrigger([World EXCEPT !.clock = @ + g], m, n, bad)
    IN /\ nOps < MaxTriggers
       /\ nOps' = nOps + 1
       /\ Commit(w, "TAS.play", Outcome(w))
       /\ UNCHANGED <<calls, ctx>>

CallSFXTrigger ==
  \E m \in PlayMethods, n \in ParamInputs, bad \in BadVoices, g \in TriggerGaps :
    LET w == SFXTrigger([World EXCEPT !.clock = @ + g], m, n, bad)
    IN /\ nOps < MaxTriggers
       /\ nOps' = nOps + 1
       /\ Commit(w, "SFX.play", Outcome(w))
       /\ UNCHANGED <<calls, ctx>>

NextTrig ==
  \/ CallTrigger
  \/ CallSFXTrigger

SpecTrig == InitTrig /\ [][NextTrig]_vars

----------------------------------------------------------------------------
(* Properties *)

\* commands that make a voice feeding the master channel sound
VoiceEvents ==
  {"trigger:sfx", "start:subOsc", "start:pulseLoop",
   "attack:drone", "attack:string", "attack:brass", "attackRelease:shimmer"}

RampEvents == {"rampGain", "rampFilter"}

NormalGains(a) ==
  [sub |-> a.subGain, drones |-> a.droneGains, strings |-> a.stringGain,
   brass |-> a.brassGain, shimmer |-> a.shimmerGain]

\* C1: ToneAudioSystem.init() runs its steps strictly in order: within the
\* macrotask that runs them, EffectChain.init() is called only after the
\* unlock sequence has ended, AmbientSoundscape.init() only after the await on
\* EffectChain.init() has resolved (the chain is then initialized) or timed
\* out, SFXEngine.init() only after the await on AmbientSoundscape.init(), and
\* initialized becomes true only after the await on SFXEngine.init().
C1_InitStepsInOrder ==
  [][ /\ Before(log', {"unlock.end"}, "call:EC.init")
      /\ Before(log', {"EC.init:resolved", "EC.init:timeout"}, "call:AS.init")
      /\ Before(log', {"AS.init:resolved", "AS.init:timeout"}, "call:SFX.init")
      /\ Before(log', {"SFX.init:resolved", "SFX.init:timeout"}, "initialized:=true")
      /\ Has(log', "EC.init:resolved") => ec'.initialized
      /\ Has(log', "EC.init:timeout") =>
            \E i \in Calls : calls[i].pc = "ec" /\ calls[i].ec = "generating"
      /\ Has(log', "unlock.end") =>
            \E i \in Calls : calls[i].pc \in UnlockPcs /\ calls'[i].pc \notin UnlockPcs
      /\ (~tas.initialized /\ tas'.initialized) => Has(log', "initialized:=true")
    ]_vars

\* init() has gone through all four steps, the chain having finished in time
C1_Witness ==
  /\ op.name = "settle:reverb.generate"
  /\ Has(log, "initialized:=true")
  /\ tas.initialized /\ ec.initialized /\ amb.initialized /\ sfx.initialized

\* C2: between construction and dispose() the EffectChain graph is built at
\* most once: at most one reverb send, one delay send and one main-input
\* filter are created, whatever the interleaving of init() calls.
C2_GraphBuiltOnce ==
  /\ ec.created.reverbSend <= 1
  /\ ec.created.delaySend <= 1
  /\ ec.created.warmFilter <= 1

\* C3: at most one unlock sequence is in progress at any time.
C3_OneUnlockAtATime ==
  Cardinality({i \in Calls : calls[i].pc \in UnlockPcs}) <= 1

\* C4: mute invariant: whenever muted is true the master channel, if it
\* exists, is silenced, and the last macrotask has triggered no voice.
C4_MuteInvariant ==
  tas.muted =>
    /\ ec.masterChannel => ec.masterMute
    /\ \A k \in 1..Len(log) : log[k] \notin VoiceEvents

\* C5: an event method of the orchestrator (play*, setInvertedMode) called
\* while initialized is false or muted is true forwards nothing: it issues no
\* command and leaves EffectChain, AmbientSoundscape, SFXEngine and the host
\* timers as they were.
C5_EventMethodsGuarded ==
  [][ (op'.name \in {"TAS.play", "TAS.setInvertedMode"} /\ (~tas.initialized \/ tas.muted))
        => (log' = <<>> /\ ec' = ec /\ amb' = amb /\ sfx' = sfx /\ timers' = timers)
    ]_vars

\* an event method was called on the initialized, muted system
C5_Witness ==
  /\ op.name = "TAS.play"
  /\ tas.initialized /\ tas.muted /\ sfx.initialized
  /\ log = <<>>

\* C6 as stated: toggleMute() flips muted and returns the new value; muting
\* leaves the soundscape inactive; unmuting after startBgMusic() leaves it
\* active.
C6_ToggleMuteAsStated ==
  [][ op'.name = "TAS.toggleMute" =>
        /\ tas'.muted = ~tas.muted
        /\ op'.ret = (IF tas'.muted THEN "true" ELSE "false")
        /\ tas'.muted => ~amb'.active
        /\ (~tas'.muted /\ tas.soundscapeStartedInternal) => amb'.active
    ]_vars

\* C6 amended: toggleMute() flips muted and returns the new value; muting
\* leaves the soundscape inactive; unmuting after startBgMusic() leaves it
\* active provided AmbientSoundscape is initialized.
C6_ToggleMute ==
  [][ op'.name = "TAS.toggleMute" =>
        /\ tas'.muted = ~tas.muted
        /\ op'.ret = (IF tas'.muted THEN "true" ELSE "false")
        /\ tas'.muted => ~amb'.active
        /\ (~tas'.muted /\ tas.soundscapeStartedInternal /\ amb.initialized) => amb'.active
    ]_vars

\* the soundscape started with startBgMusic() has been muted and unmuted
C6_Witness ==
  /\ op.name = "TAS.toggleMute" /\ op.ret = "false"
  /\ tas.soundscapeStartedInternal
  /\ amb.active
  /\ Has(log, "start:subOsc")

\* C7: AmbientSoundscape.start() called right after start() issues no command
\* (no oscillator start, no attack, no timer) and changes nothing.
C7_StartIdempotent ==
  [][ (op.name = "AS.start" /\ op'.name = "AS.start") =>
        /\ log' = <<>>
        /\ amb' = amb /\ timers' = timers /\ transport' = transport
        /\ ec' = ec /\ sfx' = sfx /\ tas' = tas
    ]_vars

\* init(), start(), start(): the second start() found the soundscape active,
\* with the three timers of the first one still pending
C7_Witness ==
  /\ op.name = "AS.start" /\ nOps = 3
  /\ amb.active
  /\ log = <<>>
  /\ BagCardinality(timers) = 3

\* C8: on the active soundscape, setInvertedMode(true) followed by
\* setInvertedMode(false) leaves the gain target of every normal layer (sub,
\* each drone gain, strings, brass, shimmer) where it was before.
C8_InvertedRoundTrip ==
  (amb.initialized /\ amb.active) =>
    NormalGains(ASSetInvertedMode(ASSetInvertedMode(World, TRUE), FALSE).amb)
      = NormalGains(amb)

\* C9: setInvertedMode(v) on the soundscape whose invertedMode already equals
\* v issues no command and no timer and changes nothing.
C9_NoDoubleTrigger ==
  [][ ( \/ (op'.name = "AS.setInvertedMode(true)" /\ amb.invertedMode)
        \/ (op'.name = "AS.setInvertedMode(false)" /\ ~amb.invertedMode) )
        => (log' = <<>> /\ amb' = amb /\ timers' = timers)
    ]_vars

\* C10: while invertedMode is true neither swell() nor the return timer of an
\* earlier swell issues a gain or filter ramp.
C10_NoSwellWhileInverted ==
  [][ (amb.invertedMode /\ op'.name \in {"AS.swell", "timer:swellReturn"})
        => \A k \in 1..Len(log') : log'[k] \notin RampEvents
    ]_vars

\* C11: in init(); setGameLevel(L); start() the gain targets start() sets for
\* the sub, drone, string, brass and shimmer layers are the ones
\* setIntensity(0.3 + L/10 * 0.6) prescribes, for every L in 1..10.
C11_StartAppliesLevel ==
  (amb.initialized /\ ~amb.active) =>
    \A L \in 1..10 :
      LET started == ASStart(ASSetGameLevel(World, L))
      IN NormalGains(started.amb)
           = NormalGains(ASSetIntensity(started, 300 + L * 60).amb)

\* C14: stop() on the active soundscape clears active and ramps every gain
\* down at once, but stops no oscillator and releases no voice: that is left
\* to the 6 s timer it sets, and done when the timer fires.  stop() on the
\* inactive soundscape (a second stop()) does nothing.
C14_StopDeferred ==
  [][ /\ (op'.name = "AS.stop" /\ amb.initialized /\ amb.active) =>
            /\ ~amb'.active
            /\ Has(log', "rampGain")
            /\ amb'.subGain = 100 /\ amb'.stringGain = 100
            /\ amb'.brassGain = 100 /\ amb'.shimmerGain = 100
            /\ amb'.pulseGain = 100
            /\ \A i \in DOMAIN amb'.droneGains : amb'.droneGains[i] = 100
            /\ ~Has(log', "stop:subOsc") /\ ~Has(log', "release:all")
            /\ amb'.subOsc = amb.subOsc /\ amb'.droneSynths = amb.droneSynths
            /\ amb'.stringSynth = amb.stringSynth /\ amb'.brassSynth = amb.brassSynth
            /\ CopiesIn(Timer("release", 0), timers')
                 = CopiesIn(Timer("release", 0), timers) + 1
      /\ (op'.name = "AS.stop" /\ ~amb.active) =>
            (log' = <<>> /\ amb' = amb /\ timers' = timers)
      /\ op'.name = "timer:stopRelease" =>
            /\ Has(log', "stop:subOsc") /\ Has(log', "release:all")
            /\ ~amb'.subOsc /\ ~amb'.stringSynth /\ ~amb'.brassSynth
            /\ \A i \in DOMAIN amb'.droneSynths : ~amb'.droneSynths[i]
    ]_vars

\* init(), start(), stop(), and the 6 s timer of the stop() has fired on the
\* soundscape that was sounding until then
C14_Witness ==
  /\ op.name = "timer:stopRelease" /\ nOps = 3
  /\ amb.initialized /\ ~amb.active
  /\ ~amb.subOsc /\ amb.subGain = 100
  /\ Has(log, "stop:subOsc")

\* the gain targets of the loop tracks in m: the track of level l at 1, the
\* rest at 0 (all at 0 for level 0)
OnlyTrackOfLevel(m, l) ==
  \A t \in Tracks : m.gain[t] = IF t = GetTrackForLevel(l) THEN 1 ELSE 0

\* C12: in init(); setLevel(L >= 1); start() the track mapped to L (1-2 base,
\* 3-4 hihat, 5-7 saw, 8 and above bass) has target gain 1 after start() and
\* every other track target gain 0.
C12_StartUsesStoredLevel ==
  [][ /\ \A l \in 1..20 :
           GetTrackForLevel(l) = IF l <= 2 THEN "base" ELSE IF l <= 4 THEN "hihat"
                                 ELSE IF l <= 7 THEN "saw" ELSE "bass"
      /\ ( /\ op.name = "MLS.setLevel" /\ op'.name = "MLS.start"
           /\ mls.initialized /\ ~mls.started /\ mls.hasTracks
           /\ mls.currentLevel >= 1
           /\ \A t \in Tracks : mls.gain[t] = 0 )
          => ( /\ mls'.started
               /\ mls'.gain[GetTrackForLevel(mls.currentLevel)] = 1
               /\ \A t \in Tracks \ {GetTrackForLevel(mls.currentLevel)} :
                     mls'.gain[t] = 0 )
    ]_vars

\* init(), the four loads, setLevel(5), start(): the saw track is the one at 1
C12_Witness ==
  /\ op.name = "MLS.start" /\ nOps = 3
  /\ mls.started /\ mls.currentLevel = 5
  /\ mls.gain["saw"] = 1 /\ mls.source["saw"]
  /\ OnlyTrackOfLevel(mls, 5)

\* C13: once start() has run, every setLevel() leaves the tracks exclusive:
\* for a level of 1 or more exactly the track mapped to it has target gain 1
\* and the others 0, also when the level before was 0 (0 -> 1 or 2, and 0 ->
\* the bracket that was playing before the 0).
C13_TrackExclusivity ==
  [][ ( /\ op'.name = "MLS.setLevel"
        /\ mls.initialized /\ mls.started /\ mls.hasTracks
        /\ OnlyTrackOfLevel(mls, mls.currentLevel)
        /\ mls'.currentLevel >= 1 )
        => OnlyTrackOfLevel(mls', mls'.currentLevel)
    ]_vars

\* C18: after SFXEngine.playYouDied() (the variant wired to the loop player)
\* MusicLoopSystem.active is false, whatever the state of the SFXEngine: also
\* when it was never initialized while the loop player has been started.
C18_YouDiedStopsMusic ==
  [][ op'.name = "SFXL.playYouDied" => ~mls'.started ]_vars

Count(l, e) == Cardinality({k \in 1..Len(l) : l[k] = e})

\* commands that end a texture voice
TextureEnds == {"release:crackleNoise", "stop:crackleLFO", "release:attractSynth"}

\* C15: a texture setter called with a value <= 0 while its texture is active
\* ramps the gain down and neither releases nor stops the voice itself: that
\* is left to a timer due at the end of the ramp, which releases the voice and
\* clears the flag.  So a voice whose flags are clear and that has no such
\* timer pending is not sounding.
C15_TextureOffAfterRamp ==
  [][ /\ ( \/ (op'.name = "SFX.setChamberCrackling(0)" /\ sfx.crackleActive)
           \/ (op'.name = "SFX.setSpiralSuction(0)" /\ sfx.spiralSuctionActive) )
          /\ sfx.initialized
          => ( /\ Has(log', "rampGain") /\ sfx'.crackleGain = 100
               /\ \A k \in 1..Len(log') : log'[k] \notin TextureEnds
               /\ sfx'.crackleNoise = sfx.crackleNoise
               /\ CopiesIn(Timer("crackleOff", 0), timers')
                    = CopiesIn(Timer("crackleOff", 0), timers) + 1 )
      /\ (op'.name = "SFX.setBridgeAttraction(0)" /\ sfx.attractActive /\ sfx.initialized)
          => ( /\ Has(log', "rampGain") /\ sfx'.attractGain = 100
               /\ \A k \in 1..Len(log') : log'[k] \notin TextureEnds
               /\ sfx'.attractSynth = sfx.attractSynth
               /\ BagCardinality(timers') = BagCardinality(timers) + 1 )
      /\ op'.name = "timer:crackleOff"
          => (Has(log', "release:crackleNoise") /\ ~sfx'.crackleNoise /\ ~sfx'.crackleActive)
      /\ op'.name = "timer:attractOff"
          => (Has(log', "release:attractSynth") /\ ~sfx'.attractSynth /\ ~sfx'.attractActive)
      /\ ( /\ sfx'.initialized
           /\ ~sfx'.crackleActive /\ ~sfx'.spiralSuctionActive
           /\ ~BagIn(Timer("crackleOff", 0), timers') )
          => (~sfx'.crackleNoise /\ ~sfx'.crackleLFO)
    ]_vars

\* C16: a texture setter called with a value > 0 while its own flag is
\* already true issues no attack and no start, only ramps.
C16_NoRestartWhileActive ==
  [][ ( /\ sfx.initialized
        /\ \/ (op'.name = "SFX.setChamberCrackling(n)" /\ sfx.crackleActive)
           \/ (op'.name = "SFX.setSpiralSuction(i)" /\ sfx.spiralSuctionActive)
           \/ (op'.name = "SFX.setBridgeAttraction(s)" /\ sfx.attractActive) )
        => ( /\ Has(log', "rampGain")
             /\ \A k \in 1..Len(log') : log'[k] \in {"rampGain", "rampParam"} )
    ]_vars

\* init(), setChamberCrackling(3), setChamberCrackling(5): the second call
\* found crackleActive true and only ramped, to the gain of 5 particles
C16_Witness ==
  /\ op.name = "SFX.setChamberCrackling(n)" /\ nOps = 3
  /\ sfx.crackleActive /\ sfx.crackleNoise
  /\ sfx.crackleGain = 90000
  /\ log = <<"rampGain", "rampParam", "rampParam">>

\* C17: setChamberCrackling(n > 0), setChamberCrackling(0),
\* setChamberCrackling(m > 0), the last call made before or after the 500 ms
\* timer of the second fires: once the timer has fired and the last call has
\* been made, the voice is sounding (noise attacked, LFO running,
\* crackleActive true), and the call that restarts a released voice attacks
\* it exactly once.
C17_RestartSurvivesTimer ==
  [][ /\ ( /\ op.name = "SFX.setChamberCrackling(n)"
           /\ op'.name = "timer:crackleOff"
           /\ sfx.initialized /\ ~sfx.spiralSuctionActive
           /\ BagCardinality(timers) = 1 )
          => (sfx'.crackleActive /\ sfx'.crackleNoise /\ sfx'.crackleLFO)
      /\ ( /\ op.name = "timer:crackleOff"
           /\ op'.name = "SFX.setChamberCrackling(n)"
           /\ sfx.initialized /\ ~sfx.spiralSuctionActive
           /\ BagCardinality(timers) = 0 )
          => ( /\ sfx'.crackleActive /\ sfx'.crackleNoise /\ sfx'.crackleLFO
               /\ Count(log', "attack:crackleNoise") = 1
               /\ Count(log', "start:crackleLFO") = 1 )
    ]_vars

C20_ComboSaturation ==
  [][ /\ ( /\ nOps' = 10 /\ clock' = DateNowAtLoad + 10 * 50
           /\ sfx'.baseVelocity = 2500 )
          => sfx'.collectCombo = 10
      /\ ( /\ nOps = 10 /\ clock = DateNowAtLoad + 10 * 50
           /\ nOps' = 11 /\ clock' = clock + 50
           /\ sfx.baseVelocity = 2500 /\ sfx'.baseVelocity = 2500 )
          => (sfx'.collectCombo = sfx.collectCombo /\ sfx'.velocity = sfx.velocity)
      /\ sfx'.collectCombo <= 10
    ]_vars

\* the components as their constructors leave them, with no timer pending
Fresh ==
  /\ tas = TasInit /\ ec = EcInit /\ amb = AmbInit /\ sfx = SfxInit
  /\ timers = EmptyBag

\* C22: dispose() on the freshly constructed components (no init(), no
\* start()) leaves initialized and active false and no timer pending, for
\* ToneAudioSystem.dispose() and for each dispose() it delegates to; a second
\* dispose() finds the same state and changes nothing.
C22_DisposeFresh ==
  [][ Fresh =>
        /\ SFXDispose(World).sfx = SfxInit /\ SFXDispose(World).timers = EmptyBag
        /\ ASDispose(World).amb = AmbInit /\ ASDispose(World).timers = EmptyBag
        /\ ECDispose(World).ec = EcInit /\ ECDispose(World).timers = EmptyBag
        /\ op'.name = "TAS.dispose" =>
              /\ ~tas'.initialized /\ ~ec'.initialized
              /\ ~amb'.initialized /\ ~amb'.active /\ ~sfx'.initialized
              /\ timers' = EmptyBag
              /\ tas' = tas /\ ec' = ec /\ amb' = amb /\ sfx' = sfx
              /\ transport' = transport
    ]_vars

\* dispose() has been called twice on the components as constructed
C22_Witness ==
  /\ op.name = "TAS.dispose" /\ nOps = 2
  /\ Fresh
  /\ Has(log, "dispose:EffectChain")
  /\ \A i \in Calls : calls[i].kind = "none"

\* C23: when a step of ToneAudioSystem.init() fails (here EffectChain.init()
\* rejects), init() does not throw, the remaining steps
\* (AmbientSoundscape.init(), SFXEngine.init()) are still attempted and
\* initialized is set to true.
C23_BestEffortInit ==
  [][ Has(log', "EC.init:rejected") =>
        /\ Has(log', "call:AS.init")
        /\ Has(log', "call:SFX.init")
        /\ tas'.initialized
    ]_vars

\* C25: in unlockAudio(), once the context is running after a step, no later
\* step (context resume, raw-context resume, silent-buffer playback) is
\* performed by that invocation.
C25_FallbackOnlyIfNotRunning ==
  [][ ( /\ op'.name \in {"settle:Tone.start", "settle:context.resume",
                          "settle:rawContext.resume"}
        /\ ctx' = "running" )
        => /\ ~Has(log', "call:context.resume")
           /\ ~Has(log', "call:rawContext.resume")
           /\ ~Has(log', "start:silentBuffer")
    ]_vars

\* C26: getMainInput(), getReverbSend(), getDelaySend() and
\* getMasterChannel() return null whenever EffectChain.initialized is false.
C26_GettersNullUnlessInitialized ==
  ~ec.initialized =>
    /\ ~ECGetMainInput(World) /\ ~ECGetReverbSend(World)
    /\ ~ECGetDelaySend(World) /\ ~ECGetMasterChannel(World)

\* C30: the crackle noise voice is attacked only when it is not sounding and
\* released only when it is, whatever the sequence of setChamberCrackling(),
\* setSpiralSuction() calls and timer firings: attack and release alternate.
C30_CrackleAlternation ==
  [][ /\ Has(log', "attack:crackleNoise") =>
            (~sfx.crackleNoise /\ Count(log', "attack:crackleNoise") = 1)
      /\ Has(log', "release:crackleNoise") =>
            (sfx.crackleNoise /\ Count(log', "release:crackleNoise") = 1)
    ]_vars

\* C24: every invocation of init() or resume() that is awaiting a step of
\* the unlock sequence or EffectChain.init() eventually returns (or, for
\* init(), ends in its catch block), given only that the timers fire.
C24_InitResumeReturn ==
  \A i \in Calls :
    (calls[i].pc \in UnlockPcs \cup {"ec"}) ~> (calls[i].pc \in {"done", "failed"})

\* init() has returned although reverb.generate() never settled: the timeout
\* of EffectChain.init() ended the await and the other steps ran
C24_Witness ==
  /\ op.name = "timeout:EC.init"
  /\ tas.initialized /\ ~ec.initialized
  /\ \E i \in Calls :
        calls[i].kind = "init" /\ calls[i].pc = "done" /\ calls[i].ec = "generating"

\* C27: every command by which a control of the effect chain changes its
\* parameter is a ramp of positive duration, never an instantaneous set, and
\* setFilterFrequency leaves the filter heading for a frequency between
\* 20 Hz and 20000 Hz.
C27_ControlsRamp ==
  [][ /\ \A k \in 1..Len(log') :
           log'[k] \in DOMAIN ECRamp => ECRamp[log'[k]] > 0
      /\ (op'.name = "EC.setFilterFrequency" /\ ec.warmFilter)
           => (ec'.filterTarget >= 200 /\ ec'.filterTarget <= 200000) ]_vars

\* C21: no play* method of the SFXEngine lets the error of a failing trigger
\* call escape: the method, and the ToneAudioSystem method that forwards to
\* it, return normally.
C21_NoSchedulingErrorEscapes == op.ret # "throws"

\* C28: a play* call that attacks the sub voice has issued a release to the
\* sub voice earlier in the same call.
C28_ReleaseBeforeAttack ==
  [][ Has(log', "attackRelease:sub")
        => Before(log', {"release:sub"}, "attackRelease:sub") ]_vars

\* C29: the times scheduled on the sub voice increase strictly in issue
\* order: within one call, and from one call to a later call made at the
\* same instant.
C29_SubTimesIncrease ==
  \A i \in 1..Len(sfx.subSched) :
    LET a == sfx.subSched[i]
    IN /\ \A k \in 1..(Len(a.times) - 1) : a.times[k] < a.times[k + 1]
       /\ \A j \in (i + 1)..Len(sfx.subSched) :
            LET b == sfx.subSched[j]
            IN a.now = b.now
                 => \A k \in 1..Len(a.times), l \in 1..Len(b.times) :
                      a.times[k] < b.times[l]

\* C31: on an active, non-inverted soundscape with no swell return pending,
\* the stored intensity is the one a caller set last through setIntensity or
\* setGameLevel (the initial one if none did): swells leave no lasting change.
C31_SwellsLeaveNoChange ==
  (/\ amb.initialized /\ amb.active /\ ~amb.invertedMode
   /\ \A t \in BagToSet(timers) : t.k # "swell")
    => amb.intensity = hist.intensity

\* C32: while the soundscape is active and no deferred release of an earlier
\* stop() is pending, the sub oscillator runs and the voices of the chord
\* (the current drone and the strings) are not released.
C32_ActiveMeansSounding ==
  (amb.active /\ \A t \in BagToSet(timers) : t.k # "release")
    => /\ amb.subOsc
       /\ amb.stringSynth
       /\ amb.droneSynths[amb.currentDroneIndex + 1]

\* C33: while invertedMode is true and no deferred pulse stop is pending, the
\* heartbeat pulse loop is running.
C33_InvertedMeansPulse ==
  (amb.invertedMode /\ \A t \in BagToSet(timers) : t.k # "pulseStop")
    => amb.pulseLoop

\* C34: the filter of the effect chain heads for the muffled (underwater)
\* frequency exactly when the soundscape is in inverted mode.
C34_InvertedHalvesAgree == (ec.filterTarget = 3000) <=> amb.invertedMode

\* C35: a setIntensity() or setGameLevel() made while invertedMode is true
\* records the intensity and leaves the gain targets of the normal layers
\* (sub, drones, strings, brass, shimmer) as inverted mode set them.
C35_InvertedKeepsDampening ==
  [][ (op'.name \in {"AS.setIntensity", "AS.setGameLevel"} /\ amb.invertedMode)
        => NormalGains(amb') = NormalGains(amb) ]_vars

\* C36: after a start() that starts the loop player, and after a deferred
\* source stop, if the player is started and no deferred source stop is
\* pending, every track whose buffer was loaded has a live source.
C36_StartedMeansPlaying ==
  [][ (/\ \/ op'.name = "MLS.start" /\ ~mls.started
          \/ op'.name = "timer:srcStop"
       /\ mls'.started
       /\ \A t \in BagToSet(timers') : t.k # "srcStop")
        => \A t \in Tracks : (mls'.hasTracks /\ mls'.buffer[t]) => mls'.source[t] ]_vars

\* C37: an initialized soundscape owns exactly three drone voices and three
\* drone gains, also when it was disposed and initialized again, so that the
\* drone rotation of playChord runs over those three.
C37_ThreeDrones ==
  amb.initialized
    => /\ Len(amb.droneSynths) = 3
       /\ Len(amb.droneGains) = 3
       /\ amb.currentDroneIndex \in 0..2

\* C38: when dispose() of the SFXEngine returns, no continuous texture is
\* marked active and no timer is pending that would later command a node
\* dispose() has released.
C38_DisposeEndsTextures ==
  [][ op'.name = "SFX.dispose"
        => /\ ~sfx'.crackleActive
           /\ ~sfx'.attractActive
           /\ ~sfx'.spiralSuctionActive
           /\ \A t \in BagToSet(timers') : t.k \notin {"crackleOff", "attractOff"} ]_vars

\* C39: in every state of the soundscape invertedMode implies active and
\* active implies initialized.
C39_FlagOrder ==
  /\ amb.invertedMode => amb.active
  /\ amb.active => amb.initialized

\* inverted mode has been switched on: all three flags are set
C39_Witness ==
  /\ op.name = "AS.setInvertedMode(true)"
  /\ amb.invertedMode /\ amb.active /\ amb.initialized

\* C40: at most one chord-advance timer is pending, none while the soundscape
\* is inactive, and the chord index changes only in a step taken while the
\* soundscape is active.
C40_OneChordTimer ==
  [][ /\ Cardinality({t \in BagToSet(timers') : t.k = "chord"}) <= 1
      /\ \A t \in BagToSet(timers') : t.k = "chord" => timers'[t] = 1
      /\ ~amb'.active => \A t \in BagToSet(timers') : t.k # "chord"
      /\ amb'.currentChordIndex # amb.currentChordIndex => amb.active ]_vars

\* the chord timer has fired on the active soundscape: the progression has
\* advanced and the next advance, and only that, is pending
C40_Witness ==
  /\ op.name = "timer:advanceChord"
  /\ amb.active
  /\ amb.currentChordIndex = 1
  /\ BagIn(Timer("chord", 1), timers)

====
